---- MODULE Spec2Model ----
(***************************************************************************)
(* Model of the osv-reproducer reproduction pipeline.                      *)
(*                                                                         *)
(* Two entry points exist in the sources and both are modelled:            *)
(*   - ReproducerService.__call__ (services/reproducer.py) driving         *)
(*     ContextService, BuilderService and RunnerService;                   *)
(*   - Base._run_and_handle (controllers/base.py), the code behind the     *)
(*     `reproduce` and `verify` verbs, driving the handlers.               *)
(* The container runtime, the file provisioner and the remote              *)
(* collaborators are the environment: their answers are inputs drawn from  *)
(* small sets by the actions.                                              *)
(***************************************************************************)
EXTENDS Integers, Sequences, FiniteSets, TLC

VARIABLES
    entry,        \* "service" (ReproducerService) or "controller" (Base._run_and_handle)
    mode,         \* ReproductionMode of the run
    pc,           \* position inside the try block: "context", "build", "run", "done"
    run_status,   \* the RunStatus being filled in
    raised,       \* kind and message of the exception that ended the try block
    calls,        \* collaborators invoked so far, in order
    image,        \* TRUE iff the project's base image exists in the runtime
    intermediate, \* TRUE iff an image build left its intermediate containers behind
    containers,   \* runtime containers by name: <<>> (absent) or <<record>>
    files,        \* file provisioner / output directory contents
    dlog,         \* state-changing runtime calls issued so far, in order
    crash_info,   \* the crash record held by the Run phase: <<>> (None) or <<record>>
    verification, \* the VerificationResult of the Verify step: <<>> or <<record>>
    ran,          \* a call of container_ran: its arguments and result
    gcs,          \* the snapshot resolver: remote store, cache, calls made, results
    vc,           \* a call of verify_crash: reference, observed crash and results
    plog,         \* calls of parse_reproduce_logs_to_dict: the log lines and the results
    names,        \* two ReproductionContexts and the container names derived from them
    fix,          \* a FIX-mode snapshot search: the record's ranges, the requests made, the result
    race,         \* two invocations of the Run phase sharing one container runtime
    twin          \* two calls of get_snapshot sharing one snapshot cache

pipeline == <<entry, mode, pc, run_status, raised, calls, image, intermediate, containers,
              files, dlog, crash_info, verification>>

units == <<ran, gcs, vc, plog, names, fix, race, twin>>

(* The state of the concurrent and search specifications.                 *)
later == <<fix, race, twin>>

vars == <<pipeline, units>>

----------------------------------------------------------------------------
(* Optional values: None is the empty sequence, a value v is <<v>>.        *)
None == <<>>

(* The search and the concurrent specifications are not in use.           *)
NoLater == fix = None /\ race = None /\ twin = None
Some(v) == <<v>>
IsNone(o) == o = <<>>
Get(o) == o[1]

(* Python truthiness of an Optional[int].                                  *)
TruthyInt(o) == o # None /\ Get(o) # 0

Min(a, b) == IF a < b THEN a ELSE b

CRASH == "CRASH"
FIX == "FIX"
ReproductionMode == {CRASH, FIX}

----------------------------------------------------------------------------
(* CrashInfo: [impact, operation, size, address, stack]; stack is the      *)
(* sequence of frame function names, index 1 = crash site.                 *)

Crash(imp, op, sz, addr, st) ==
    [impact |-> imp, operation |-> op, size |-> sz, address |-> addr, stack |-> st]

VerificationResult(ok, frame, msgs) ==
    [success |-> ok, matched_frame |-> frame, error_messages |-> msgs]

MsgImpact == "Impact mismatch"
MsgOperation == "Operation mismatch"
MsgSize == "Size mismatch"
MsgNoFrames == "No stack frames to compare"
MsgNoShift == "No matching stack frames found after shifting through all frames"
MsgFrame0 == "Stack frame 0 mismatch"

(* The shift search of verify_crash: smallest index 1..len-1 (0-based) of  *)
(* an observed frame equal to the reference's first frame, 0 if none.      *)
FindShift_None(ref_stack, obs_stack) == 0

FindShift(ref_stack, obs_stack) ==
    LET cands == {k \in 1..(Len(obs_stack) - 1) : obs_stack[k + 1] = ref_stack[1]}
    IN  IF cands = {} THEN 0 ELSE CHOOSE k \in cands : \A j \in cands : k <= j

(* The pairs (reference index, observed index), 0-based, that the frame    *)
(* comparison loop of RunnerService.verify_crash visits.                   *)
compared_frames(ref, obs) ==
    LET nref == Len(ref.stack)
        nobs == Len(obs.stack)
        search == nref > 0 /\ nobs > 1 /\ ref.stack[1] # obs.stack[1]
        shift == IF search THEN FindShift(ref.stack, obs.stack) ELSE 0
    IN  IF nref = 0 \/ nobs = 0
        THEN {}
        ELSE { <<i, i + shift>> : i \in 0..(Min(nref, nobs - shift) - 1) }

(* Variants of verify_crash that the code does not implement: "strict"     *)
(* makes a mismatch at a compared index greater than 0 fatal, "two_sided"  *)
(* also shifts the reference stack forward.                                *)
verify_crash_Variant(ref, obs, variant) ==
    LET m1 == IF obs.impact # ref.impact THEN <<MsgImpact>> ELSE <<>>
        m2 == IF obs.operation # ref.operation THEN <<MsgOperation>> ELSE <<>>
        m3 == IF TruthyInt(ref.size) /\ obs.size # ref.size THEN <<MsgSize>> ELSE <<>>
        pre == m1 \o m2 \o m3
        nref == Len(ref.stack)
        nobs == Len(obs.stack)
    IN  IF nref = 0 \/ nobs = 0
        THEN VerificationResult(TRUE, None, pre \o <<MsgNoFrames>>)
        ELSE LET search == nobs > 1 /\ ref.stack[1] # obs.stack[1]
                 shift == IF search THEN FindShift(ref.stack, obs.stack) ELSE 0
                 found == search /\ shift > 0
                 rshift == IF variant = "two_sided" /\ ~found
                                /\ ref.stack[1] # obs.stack[1]
                           THEN FindShift(obs.stack, ref.stack) ELSE 0
                 m4 == IF search /\ ~found /\ rshift = 0 THEN <<MsgNoShift>> ELSE <<>>
                 n == Min(nref - rshift, nobs - shift)
                 m5 == IF n > 0 /\ ref.stack[1 + rshift] # obs.stack[1 + shift]
                       THEN <<MsgFrame0>> ELSE <<>>
                 m6 == IF variant = "strict"
                          /\ \E i \in 2..n : ref.stack[i] # obs.stack[i + shift]
                       THEN <<"Stack frame mismatch">> ELSE <<>>
                 msgs == pre \o m4 \o m5 \o m6
             IN  VerificationResult(Len(msgs) = 0,
                                    IF found THEN Some(obs.stack[1 + shift]) ELSE None,
                                    msgs)

verify_crash_Strict(ref, obs) == verify_crash_Variant(ref, obs, "strict")

verify_crash_TwoSided(ref, obs) == verify_crash_Variant(ref, obs, "two_sided")

(* RunnerService.verify_crash                                              *)
verify_crash(ref, obs) ==
    LET m1 == IF obs.impact # ref.impact THEN <<MsgImpact>> ELSE <<>>
        m2 == IF obs.operation # ref.operation THEN <<MsgOperation>> ELSE <<>>
        m3 == IF TruthyInt(ref.size) /\ obs.size # ref.size THEN <<MsgSize>> ELSE <<>>
        pre == m1 \o m2 \o m3
        nref == Len(ref.stack)
        nobs == Len(obs.stack)
    IN  IF nref = 0 \/ nobs = 0
        THEN \* early return: success keeps its initial value True
             VerificationResult(TRUE, None, pre \o <<MsgNoFrames>>)
        ELSE LET search == nobs > 1 /\ ref.stack[1] # obs.stack[1]
                 shift == IF search THEN FindShift(ref.stack, obs.stack) ELSE 0
                 found == search /\ shift > 0
                 m4 == IF search /\ ~found THEN <<MsgNoShift>> ELSE <<>>
                 n == Min(nref, nobs - shift)
                 m5 == IF n > 0 /\ ref.stack[1] # obs.stack[1 + shift]
                       THEN <<MsgFrame0>> ELSE <<>>
                 msgs == pre \o m4 \o m5
             IN  VerificationResult(Len(msgs) = 0,
                                    IF found THEN Some(obs.stack[1 + shift]) ELSE None,
                                    msgs)

(* RunnerHandler.verify_crash (the handler used by the controller)         *)
handler_verify_crash(ref, obs) ==
    LET m1 == IF obs.impact # ref.impact THEN <<MsgImpact>> ELSE <<>>
        m2 == IF obs.operation # ref.operation THEN <<MsgOperation>> ELSE <<>>
        m3 == IF obs.size # ref.size THEN <<MsgSize>> ELSE <<>>
        nref == Len(ref.stack)
        nobs == Len(obs.stack)
        m4 == IF nref = 0 \/ nobs = 0 THEN <<MsgNoFrames>> ELSE <<>>
        m5 == IF Min(nref, nobs) > 0 /\ ref.stack[1] # obs.stack[1]
              THEN <<MsgFrame0>> ELSE <<>>
        msgs == m1 \o m2 \o m3 \o m4 \o m5
    IN  VerificationResult(Len(msgs) = 0, None, msgs)

----------------------------------------------------------------------------
(* Exceptions: a raised exception is [kind, msg]; NoExc means "returned".  *)
Exc(k, m) == [kind |-> k, msg |-> m]
NoExc == Exc("none", "")
DidRaise(e) == e.kind # "none"

ContextError == "ContextError"
BuilderError == "BuilderError"
RunnerError == "RunnerError"
OSVReproducerError == "OSVReproducerError"
DockerError == "DockerError"
Unexpected == "Exception"

(* The three domain errors ReproducerService.__call__ names.               *)
DomainErrors == {ContextError, BuilderError, RunnerError}

(* core/exc.py: the errors derived from OSVReproducerError.                *)
IsOSVReproducerError(k) == k \in {OSVReproducerError, DockerError}

----------------------------------------------------------------------------
(* The container runtime.                                                  *)
(* A container is [status, exit_code, started_at, logs, error, oom_killed, *)
(* make_error]: State.Status, State.ExitCode, State.StartedAt, the         *)
(* combined stdout/stderr, State.Error, State.OOMKilled, and whether the   *)
(* last log lines show a make error.                                       *)
(* A timestamp is <<>> (unset) or <<year, rest>>; logs are a sequence of   *)
(* characters, each whitespace "ws" or printable "ch".                     *)
ZeroTime == <<"0001", "-01-01T00:00:00Z">>
StartTime == <<"2024", "-05-01T10:00:00Z">>
NoLogs == <<>>
SomeLogs == <<"ch", "ws">>

Container(st, code, started, has_logs, err, mk) ==
    [status |-> st, exit_code |-> code,
     started_at |-> IF started THEN StartTime ELSE ZeroTime,
     logs |-> IF has_logs THEN SomeLogs ELSE NoLogs,
     error |-> IF err THEN "error" ELSE "", oom_killed |-> FALSE,
     make_error |-> mk]

(* bytes.strip(): leading and trailing whitespace removed                  *)
RECURSIVE LStrip(_)
LStrip(s) == IF s # <<>> /\ Head(s) = "ws" THEN LStrip(Tail(s)) ELSE s

RECURSIVE RStrip(_)
RStrip(s) == IF s # <<>> /\ s[Len(s)] = "ws" THEN RStrip(SubSeq(s, 1, Len(s) - 1)) ELSE s

Strip(s) == RStrip(LStrip(s))

(* str.startswith("0001") on a timestamp                                   *)
StartsWith0001(t) == t # <<>> /\ t[1] = "0001"

FUZZER == "fuzzer"   \* context.fuzzer_container_name
RUNNER == "runner"   \* context.runner_container_name
ContainerNames == {FUZZER, RUNNER}

(* The world the pipeline acts on.                                         *)
World(cs, img, fs, log, im) ==
    [containers |-> cs, image |-> img, files |-> fs, dlog |-> log, intermediate |-> im]

Op(what, name) == <<what, name>>

(* DockerHandler.check_container_exists                                    *)
check_container_exists(w, name) == w.containers[name]

(* Container.remove(force=True): the runtime answers 404 for a container   *)
(* that is already gone, which docker-py raises as NotFound.               *)
container_remove(w, name) ==
    IF IsNone(w.containers[name])
    THEN [raised |-> Exc(Unexpected, "NotFound"), w |-> w]
    ELSE [raised |-> NoExc,
          w |-> [w EXCEPT !.containers[name] = None,
                          !.dlog = Append(@, Op("remove", name))]]

(* DockerHandler.check_container_exit_status, expected exit code 0         *)
check_container_exit_status(w, name) ==
    LET c == Get(w.containers[name])
    IN  IF c.status = "exited"
        THEN IF 0 # c.exit_code
             THEN [ok |-> FALSE, w |-> container_remove(w, name).w]
             ELSE [ok |-> TRUE, w |-> w]
        ELSE [ok |-> TRUE, w |-> w]

(* DockerHandler.build_image: the classic builder runs one container per   *)
(* step; rm (remove_containers) removes them after a successful build.     *)
(* ok is whether the build succeeds and leaves the tagged image.           *)
build_image(w, ok, remove_containers) ==
    [raised |-> IF ok THEN NoExc ELSE Exc(DockerError, "Failed to build Docker image"),
     w |-> [w EXCEPT !.dlog = Append(@, Op("build_image", "base")),
                     !.image = ok,
                     !.intermediate = @ \/ ~ok \/ ~remove_containers]]

(* DockerHandler.run_container followed by stream_container_logs: the      *)
(* runtime refuses a name that is in use; otherwise the container runs to  *)
(* its exit and `c` is what it ends as.                                    *)
run_container(w, name, ok, c) ==
    IF ~ok \/ ~IsNone(w.containers[name])
    THEN [raised |-> Exc(DockerError, "Failed to run container"), w |-> w]
    ELSE [raised |-> NoExc,
          w |-> [w EXCEPT !.containers[name] = Some(c),
                          !.dlog = Append(@, Op("run_container", name))]]

(* DockerHandler.check_container_exit_code                                 *)
check_container_exit_code(copt) == IF IsNone(copt) THEN None ELSE Some(Get(copt).exit_code)

(* A container_ran that tests the exit code before anything else and so   *)
(* skips the log and error checks when an exit code is expected.           *)
container_ran_ExitCodeFirst(copt, expected, require_logs, require_no_error) ==
    IF IsNone(copt) THEN FALSE
    ELSE LET c == Get(copt)
         IN  IF c.started_at = <<>> \/ StartsWith0001(c.started_at) THEN FALSE
             ELSE IF c.status \in {"created", ""} THEN FALSE
             ELSE IF ~IsNone(expected) THEN c.exit_code = Get(expected)
             ELSE IF require_logs /\ Strip(c.logs) = <<>> THEN FALSE
             ELSE IF require_no_error /\ (c.error # "" \/ c.oom_killed) THEN FALSE
             ELSE TRUE

(* A container_ran that accepts every exit code.                           *)
container_ran_AnyExitCode(copt, expected, require_logs, require_no_error) ==
    IF IsNone(copt) THEN FALSE
    ELSE LET c == Get(copt)
         IN  IF c.started_at = <<>> \/ StartsWith0001(c.started_at) THEN FALSE
             ELSE IF c.status \in {"created", ""} THEN FALSE
             ELSE IF require_logs /\ Strip(c.logs) = <<>> THEN FALSE
             ELSE IF require_no_error /\ (c.error # "" \/ c.oom_killed) THEN FALSE
             ELSE TRUE

(* DockerHandler.container_ran; expected is an Optional exit code          *)
container_ran(copt, expected, require_logs, require_no_error) ==
    IF IsNone(copt) THEN FALSE
    ELSE LET c == Get(copt)
         IN  IF c.started_at = <<>> \/ StartsWith0001(c.started_at) THEN FALSE
             ELSE IF c.status \in {"created", ""} THEN FALSE
             ELSE IF require_logs /\ Strip(c.logs) = <<>> THEN FALSE
             ELSE IF require_no_error /\ (c.error # "" \/ c.oom_killed) THEN FALSE
             ELSE IF ~IsNone(expected) THEN c.exit_code = Get(expected)
             ELSE TRUE

----------------------------------------------------------------------------
(* BuilderService.  Inputs b: project_path (recipe directory known),       *)
(* build (outcome of build_image), repos (every repository path known),    *)
(* run (run_container succeeds), exit_code, make_error and target (what    *)
(* the build container ends as), api_fault (the runtime fails the lookup). *)

(* BuilderService.get_project_base_image                                   *)
get_project_base_image(w, b) ==
    IF w.image THEN [raised |-> NoExc, w |-> w]
    ELSE IF ~b.project_path
    THEN [raised |-> Exc(BuilderError, "Failed to build project"), w |-> w]
    ELSE LET built == build_image(w, b.build = "ok", FALSE)
         IN  IF ~DidRaise(built.raised) /\ built.w.image
             THEN [raised |-> NoExc, w |-> built.w]
             ELSE [raised |-> Exc(BuilderError, "Failed to build project"), w |-> built.w]

(* BuilderService.build_project_fuzzer_container                           *)
build_project_fuzzer_container(w, b) ==
    IF ~b.repos
    THEN [raised |-> Exc(BuilderError, "Failed to run container"), w |-> w]
    ELSE LET c == Container("exited", b.exit_code, TRUE, TRUE, FALSE, b.make_error)
             r == run_container(w, FUZZER, b.run, c)
             w1 == [r.w EXCEPT !.files.fuzzer = @ \/ b.target]
         IN  IF DidRaise(r.raised)
             THEN [raised |-> Exc(BuilderError, "Failed to run container"), w |-> r.w]
             ELSE IF b.make_error
             THEN [raised |-> Exc(BuilderError, "Failed to run container"), w |-> w1]
             ELSE [raised |-> NoExc, w |-> w1]

(* A rebuild that returns the new container without looking at its exit   *)
(* code.                                                                   *)
BuilderRebuild_NoExitCheck(w, b) ==
    LET r == build_project_fuzzer_container(w, b)
    IN  [raised |-> r.raised, w |-> r.w, reused |-> FALSE]

(* The tail of BuilderService.__call__: run the build, check its exit code *)
BuilderRebuild(w, b) ==
    LET r == build_project_fuzzer_container(w, b)
    IN  IF DidRaise(r.raised) THEN [raised |-> r.raised, w |-> r.w, reused |-> FALSE]
        ELSE IF Get(check_container_exit_code(r.w.containers[FUZZER])) # 0
        THEN [raised |-> Exc(BuilderError, "exited with non-zero exit code"),
              w |-> r.w, reused |-> FALSE]
        ELSE [raised |-> NoExc, w |-> r.w, reused |-> FALSE]

(* BuilderService.__call__                                                 *)
BuilderService(w, b) ==
    LET img == get_project_base_image(w, b)
    IN  IF DidRaise(img.raised) THEN [raised |-> img.raised, w |-> img.w, reused |-> FALSE]
        ELSE IF b.api_fault
        THEN [raised |-> Exc(Unexpected, "APIError"), w |-> img.w, reused |-> FALSE]
        ELSE IF IsNone(check_container_exists(img.w, FUZZER))
        THEN BuilderRebuild(img.w, b)
        ELSE LET st == check_container_exit_status(img.w, FUZZER)
                 old == Get(img.w.containers[FUZZER])
             IN  IF st.ok /\ ~old.make_error
                 THEN [raised |-> NoExc, w |-> st.w, reused |-> TRUE]
                 ELSE LET rm == container_remove(st.w, FUZZER)
                      IN  IF DidRaise(rm.raised)
                          THEN [raised |-> rm.raised, w |-> rm.w, reused |-> FALSE]
                          ELSE BuilderRebuild(rm.w, b)

----------------------------------------------------------------------------
(* Logs of a reproduction container, by what the parser extracts from      *)
(* them: has_lines (some non-empty line), parsed (the crash dictionary of  *)
(* parse_reproduce_logs_to_dict, None for the empty dictionary) and        *)
(* complete (the dictionary has every field CrashInfo requires).           *)
Logs(has_lines, parsed, complete) ==
    [has_lines |-> has_lines, parsed |-> parsed, complete |-> complete]

crash_info_dict(logs) == logs.parsed

(* The expected exit codes of the two modes exchanged.                     *)
ExpectedExitCode_Swapped(m) == IF m = FIX THEN 1 ELSE 0

(* The expected exit code of the reproduction container, by mode.          *)
ExpectedExitCode(m) == IF m = FIX THEN 0 ELSE 1

(* Inputs r of the Run phase: testcase (test case known to the             *)
(* provisioner), run (run_container succeeds), exit_code, logs, error      *)
(* (what the reproduction container ends as), api_fault (the runtime fails *)
(* the lookup made by __call__).                                           *)
RunnerContainer(r) == Container("exited", r.exit_code, TRUE, r.logs.has_lines, r.error, FALSE)

RunnerFailed(w) == [raised |-> Exc(RunnerError, "Failed to run container"), value |-> None, w |-> w]

(* A reproduce that keeps a reproduction container it finds and reads the  *)
(* exit code of that container instead of starting a new one.              *)
reproduce_KeepsContainer(w, r) ==
    IF ~w.files.fuzzer THEN RunnerFailed(w)
    ELSE IF ~r.testcase THEN RunnerFailed(w)
    ELSE LET run == IF IsNone(check_container_exists(w, RUNNER))
                    THEN run_container(w, RUNNER, r.run, RunnerContainer(r))
                    ELSE [raised |-> NoExc, w |-> w]
             dict == crash_info_dict(r.logs)
         IN  IF DidRaise(run.raised) THEN RunnerFailed(run.w)
             ELSE IF Get(check_container_exit_code(run.w.containers[RUNNER])) = 1 /\ ~IsNone(dict)
             THEN IF r.logs.complete
                  THEN [raised |-> NoExc, value |-> dict, w |-> run.w]
                  ELSE RunnerFailed(run.w)
             ELSE [raised |-> NoExc, value |-> None, w |-> run.w]

(* RunnerService.reproduce                                                 *)
reproduce(w, r) ==
    IF ~w.files.fuzzer THEN RunnerFailed(w)
    ELSE IF ~r.testcase THEN RunnerFailed(w)
    ELSE LET rm == IF IsNone(check_container_exists(w, RUNNER))
                   THEN [raised |-> NoExc, w |-> w]
                   ELSE container_remove(w, RUNNER)
             run == run_container(rm.w, RUNNER, r.run, RunnerContainer(r))
             dict == crash_info_dict(r.logs)
         IN  IF DidRaise(run.raised) THEN RunnerFailed(run.w)
             ELSE IF Get(check_container_exit_code(run.w.containers[RUNNER])) = 1
                     /\ ~IsNone(dict)
             THEN IF r.logs.complete
                  THEN [raised |-> NoExc, value |-> dict, w |-> run.w]
                  ELSE RunnerFailed(run.w)
             ELSE [raised |-> NoExc, value |-> None, w |-> run.w]

(* RunnerService.get_crash_info                                            *)
get_crash_info(w, r) ==
    IF IsNone(w.files.crash_info)
    THEN LET rep == reproduce(w, r)
         IN  IF DidRaise(rep.raised) THEN rep
             ELSE IF ~IsNone(rep.value)
             THEN [raised |-> NoExc, value |-> rep.value,
                   w |-> [rep.w EXCEPT !.files.crash_info = rep.value]]
             ELSE [raised |-> NoExc, value |-> None, w |-> rep.w]
    ELSE [raised |-> NoExc, value |-> None, w |-> w]

(* A Verify step for which a run without a crash record succeeds in both  *)
(* modes.                                                                  *)
Verify_NoCrashSucceeds(m, ref, crash, service) ==
    IF ~IsNone(crash) /\ m = CRASH
    THEN IF service THEN verify_crash(ref, Get(crash))
                    ELSE handler_verify_crash(ref, Get(crash))
    ELSE VerificationResult(IsNone(crash), None, <<>>)

(* The Verify step of RunnerService.__call__ and Base._check_crash_info;   *)
(* service tells which verify_crash the entry point calls.                 *)
Verify(m, ref, crash, service) ==
    IF m = FIX
    THEN VerificationResult(IsNone(crash), None, <<>>)
    ELSE IF ~IsNone(crash)
         THEN IF service THEN verify_crash(ref, Get(crash))
                         ELSE handler_verify_crash(ref, Get(crash))
         ELSE VerificationResult(FALSE, None, <<>>)

(* RunnerService.__call__                                                  *)
RunnerService(m, ref, w, r) ==
    LET got == get_crash_info(w, r)
        fuzzer_container == check_container_exists(got.w, RUNNER)
        out(e, v) == [raised |-> e, crash |-> got.value, verification |-> v, w |-> got.w]
    IN  IF DidRaise(got.raised) THEN out(got.raised, None)
        ELSE IF r.api_fault THEN out(Exc(Unexpected, "APIError"), None)
        ELSE IF IsNone(fuzzer_container)
        THEN out(Exc(RunnerError, "Container not found"), None)
        ELSE IF ~container_ran(fuzzer_container, Some(ExpectedExitCode(m)), TRUE, TRUE)
        THEN out(Exc(RunnerError, "Container did not run successfully"), None)
        ELSE out(NoExc, Some(Verify(m, ref, got.value, TRUE)))

----------------------------------------------------------------------------
(* GCSHandler: the snapshot resolver.                                      *)
(* A snapshot (srcmap) maps source paths to [type, url, rev]; rev is an    *)
(* Optional revision, revisions being numbered.  The cache maps a          *)
(* timestamp to an Optional snapshot (the file <project>/<timestamp>.json; *)
(* json.dump and json.load return the dictionary that was written).        *)
(* The store holds, for the sanitizer "address", a srcmap blob at every    *)
(* timestamp of store.srcmaps and, when store.clutter, an archive (.zip)   *)
(* at every timestamp and a blob whose name carries no timestamp.          *)
GCSError == "GCSError"

ProjectPath == "/src/proj"
DepPath == "/src/dep"

Entry(rev) == [type |-> "git", url |-> "https://example.org/repo.git", rev |-> rev]

EmptyMap == [x \in {} |-> Entry(None)]

(* Python truthiness of an Optional[dict]                                  *)
TruthyDict(o) == ~IsNone(o) /\ DOMAIN Get(o) # {}

Call(op, ts) == [op |-> op, ts |-> ts]

(* The srcmap the build at timestamp t recorded; shape says what it holds  *)
(* for the project's own source path.                                      *)
SrcMapAt(t, shape) ==
    LET dep == [x \in {DepPath} |-> Entry(Some(t))]
    IN  IF shape = "empty" THEN EmptyMap
        ELSE IF shape = "noproj" THEN dep
        ELSE IF shape = "norev"
        THEN [x \in {ProjectPath, DepPath} |-> IF x = DepPath THEN dep[DepPath] ELSE Entry(None)]
        ELSE [x \in {ProjectPath, DepPath} |-> IF x = DepPath THEN dep[DepPath] ELSE Entry(Some(1))]

(* A blob of the listing: its name ends in .zip or not, and the text       *)
(* between the last "-" and ".srcmap.json" parses as a timestamp or not.   *)
Blob(ts, zip) == [ts |-> ts, zip |-> zip]

(* GCSHandler._get_cached_snapshot                                         *)
_get_cached_snapshot(g, timestamp) == g.cache[timestamp]

(* GCSHandler.file_exists for the exact key                                *)
file_exists(g, sanitizer, timestamp) ==
    [raised |-> IF g.fault = "exists" THEN Exc(GCSError, "Failed to check") ELSE NoExc,
     value |-> sanitizer = "address" /\ timestamp \in g.store.srcmaps,
     g |-> [g EXCEPT !.calls = Append(@, Call("exists", timestamp))]]

(* GCSHandler.list_blobs_with_prefix for <project>/<project>-<sanitizer>-  *)
list_blobs_with_prefix(g, sanitizer, timestamp) ==
    [raised |-> IF g.fault = "list" THEN Exc(GCSError, "Failed to list blobs") ELSE NoExc,
     value |-> IF sanitizer # "address" THEN {}
               ELSE { Blob(Some(t), FALSE) : t \in g.store.srcmaps }
                    \cup (IF g.store.clutter
                          THEN { Blob(Some(t), TRUE) : t \in g.store.stamps }
                               \cup { Blob(None, FALSE) }
                          ELSE {}),
     g |-> [g EXCEPT !.calls = Append(@, Call("list", timestamp))]]

(* GCSHandler.download_file followed by _parse_snapshot_content            *)
download_file(g, t) ==
    [raised |-> IF g.fault = "download" THEN Exc(GCSError, "Failed to download") ELSE NoExc,
     value |-> SrcMapAt(t, g.store.shape),
     g |-> [g EXCEPT !.calls = Append(@, Call("download", t))]]

(* A fallback search that takes the latest candidate whatever its time.    *)
_find_alternative_snapshot_Latest(blobs, timestamp) ==
    LET before == { b \in blobs : ~b.zip /\ ~IsNone(b.ts) }
    IN  IF before = {} THEN None
        ELSE Some(Get((CHOOSE b \in before : \A o \in before : Get(o.ts) <= Get(b.ts)).ts))

(* A fallback search that does not skip the archives.                      *)
_find_alternative_snapshot_WithArchives(blobs, timestamp) ==
    LET before == { b \in blobs : ~IsNone(b.ts) /\ Get(b.ts) < timestamp }
    IN  IF before = {} THEN None
        ELSE Some(Get((CHOOSE b \in before : \A o \in before : Get(o.ts) <= Get(b.ts)).ts))

(* GCSHandler._find_alternative_snapshot on the listed blobs: the          *)
(* timestamp of the blob it returns, None when there is none.              *)
_find_alternative_snapshot(blobs, timestamp) ==
    LET before == { b \in blobs : ~b.zip /\ ~IsNone(b.ts) /\ Get(b.ts) < timestamp }
    IN  IF before = {} THEN None
        ELSE Some(Get((CHOOSE b \in before : \A o \in before : Get(o.ts) <= Get(b.ts)).ts))

(* An update that overwrites the revision of every entry.                  *)
_update_snapshot_version_AllEntries(srcmap, commit_sha) ==
    IF IsNone(commit_sha) THEN [raised |-> NoExc, value |-> srcmap]
    ELSE IF ProjectPath \notin DOMAIN srcmap
    THEN [raised |-> Exc(Unexpected, "KeyError"), value |-> srcmap]
    ELSE [raised |-> NoExc,
          value |-> [x \in DOMAIN srcmap |-> [srcmap[x] EXCEPT !.rev = commit_sha]]]

(* GCSHandler._update_snapshot_version; commit_sha is Optional             *)
_update_snapshot_version(srcmap, commit_sha) ==
    IF IsNone(commit_sha) THEN [raised |-> NoExc, value |-> srcmap]
    ELSE IF ProjectPath \notin DOMAIN srcmap
    THEN [raised |-> Exc(Unexpected, "KeyError"), value |-> srcmap]
    ELSE LET prev_rev == srcmap[ProjectPath].rev
         IN  IF ~IsNone(prev_rev) /\ prev_rev # commit_sha
             THEN [raised |-> NoExc,
                   value |-> [srcmap EXCEPT ![ProjectPath].rev = commit_sha]]
             ELSE [raised |-> NoExc, value |-> srcmap]

(* GCSHandler._save_snapshot                                               *)
_save_snapshot(g, srcmap, timestamp) ==
    [g EXCEPT !.cache[timestamp] = Some(srcmap),
              !.calls = Append(@, Call("cache_write", timestamp))]

(* The except clauses of get_snapshot: GCSError is re-raised, anything     *)
(* else is raised as GCSError.                                             *)
GcsRaise(g, e) == [raised |-> Exc(GCSError, e.msg), value |-> None, g |-> g]

(* GCSHandler.get_snapshot; a = [sanitizer, timestamp, commit_sha]         *)
get_snapshot(g, a) ==
    LET cached == _get_cached_snapshot(g, a.timestamp)
        ex == file_exists(g, a.sanitizer, a.timestamp)
        ls == list_blobs_with_prefix(ex.g, a.sanitizer, a.timestamp)
        alt == _find_alternative_snapshot(ls.value, a.timestamp)
        blob == IF ex.value THEN Some(a.timestamp) ELSE alt
        g1 == IF ex.value THEN ex.g ELSE ls.g
        dl == download_file(g1, Get(blob))
        up == _update_snapshot_version(dl.value, a.commit_sha)
    IN  IF TruthyDict(cached) THEN [raised |-> NoExc, value |-> cached, g |-> g]
        ELSE IF DidRaise(ex.raised) THEN GcsRaise(ex.g, ex.raised)
        ELSE IF ~ex.value /\ DidRaise(ls.raised) THEN GcsRaise(ls.g, ls.raised)
        ELSE IF IsNone(blob) THEN [raised |-> NoExc, value |-> None, g |-> g1]
        ELSE IF DidRaise(dl.raised) THEN GcsRaise(dl.g, dl.raised)
        ELSE IF DidRaise(up.raised) THEN GcsRaise(dl.g, up.raised)
        ELSE [raised |-> NoExc, value |-> Some(up.value),
              g |-> _save_snapshot(dl.g, up.value, a.timestamp)]

----------------------------------------------------------------------------
(* Context resolution.  Inputs c: git_fixes (the record has git fixes),    *)
(* issue_report, test_case, range (the regressed URL carries a range),     *)
(* project_info, snapshot (the collaborators' answers are present).        *)

(* Base._get_context: the exception it ends with, NoExc when it returns a  *)
(* ReproductionContext.                                                    *)
_get_context(m, c) ==
    IF m = FIX /\ ~c.git_fixes THEN Exc(OSVReproducerError, "No fixes found")
    ELSE IF ~c.issue_report THEN Exc(OSVReproducerError, "Could not find an OSS-Fuzz Issue Report")
    ELSE IF ~c.test_case THEN Exc(OSVReproducerError, "Could not get the testcase")
    ELSE IF ~c.range THEN Exc(Unexpected, "IndexError")
    ELSE IF ~c.project_info THEN Exc(OSVReproducerError, "Could not find project info")
    ELSE IF ~c.snapshot THEN Exc(OSVReproducerError, "Could not get snapshot")
    ELSE NoExc

(* ContextService.__call__: the same resolution, its expected failures     *)
(* raised as ContextError.                                                 *)
ContextService(m, c) ==
    LET e == _get_context(m, c)
    IN  IF e.kind = OSVReproducerError THEN Exc(ContextError, e.msg) ELSE e

----------------------------------------------------------------------------
(* RunStatus                                                               *)
RunStatus ==
    [context_ok |-> FALSE, build_ok |-> FALSE, setup_ok |-> FALSE, fuzzing_ok |-> FALSE,
     verification_ok |-> FALSE, exit_code |-> None, error |-> None]

EXIT_DOMAIN == 2        \* exit code of a domain error
EXIT_UNEXPECTED == 70   \* exit code of an uncategorized exception

(* A try block that carries on after an exception.                         *)
NextPc_Swallow(e, next) == next

(* The try block of ReproducerService.__call__ and Base._run_and_handle:   *)
(* an exception leaves the block, so no later phase runs.                  *)
NextPc(e, next) == IF DidRaise(e) THEN "done" ELSE next

(* Variants of the except clauses: one without the ContextError clause,   *)
(* one without the RunnerError clause, one whose RunnerError clause resets *)
(* build_ok.                                                               *)
ServiceExcept_NoContextClause(rs, e) ==
    IF e.kind = BuilderError
    THEN [rs EXCEPT !.error = Some(e.msg), !.exit_code = Some(EXIT_DOMAIN), !.build_ok = FALSE]
    ELSE IF e.kind = RunnerError
    THEN [rs EXCEPT !.error = Some(e.msg), !.exit_code = Some(EXIT_DOMAIN), !.fuzzing_ok = FALSE]
    ELSE [rs EXCEPT !.error = Some("traceback"), !.exit_code = Some(EXIT_UNEXPECTED)]

ServiceExcept_NoRunnerClause(rs, e) ==
    IF e.kind = ContextError
    THEN [rs EXCEPT !.error = Some(e.msg), !.exit_code = Some(EXIT_DOMAIN), !.context_ok = FALSE]
    ELSE IF e.kind = BuilderError
    THEN [rs EXCEPT !.error = Some(e.msg), !.exit_code = Some(EXIT_DOMAIN), !.build_ok = FALSE]
    ELSE [rs EXCEPT !.error = Some("traceback"), !.exit_code = Some(EXIT_UNEXPECTED)]

ServiceExcept_RunnerResetsBuild(rs, e) ==
    IF e.kind = ContextError
    THEN [rs EXCEPT !.error = Some(e.msg), !.exit_code = Some(EXIT_DOMAIN), !.context_ok = FALSE]
    ELSE IF e.kind = BuilderError
    THEN [rs EXCEPT !.error = Some(e.msg), !.exit_code = Some(EXIT_DOMAIN), !.build_ok = FALSE]
    ELSE IF e.kind = RunnerError
    THEN [rs EXCEPT !.error = Some(e.msg), !.exit_code = Some(EXIT_DOMAIN), !.build_ok = FALSE]
    ELSE [rs EXCEPT !.error = Some("traceback"), !.exit_code = Some(EXIT_UNEXPECTED)]

(* The except clauses of ReproducerService.__call__                        *)
ServiceExcept(rs, e) ==
    IF e.kind = ContextError
    THEN [rs EXCEPT !.error = Some(e.msg), !.exit_code = Some(EXIT_DOMAIN), !.context_ok = FALSE]
    ELSE IF e.kind = BuilderError
    THEN [rs EXCEPT !.error = Some(e.msg), !.exit_code = Some(EXIT_DOMAIN), !.build_ok = FALSE]
    ELSE IF e.kind = RunnerError
    THEN [rs EXCEPT !.error = Some(e.msg), !.exit_code = Some(EXIT_DOMAIN), !.fuzzing_ok = FALSE]
    ELSE [rs EXCEPT !.error = Some("traceback"), !.exit_code = Some(EXIT_UNEXPECTED)]

(* The except clauses of Base._run_and_handle                              *)
ControllerExcept(rs, e) ==
    IF IsOSVReproducerError(e.kind)
    THEN [rs EXCEPT !.exit_code = Some(EXIT_DOMAIN)]
    ELSE [rs EXCEPT !.exit_code = Some(EXIT_UNEXPECTED)]

(* The RunStatus ReproducerService.__call__ returns once the runner has    *)
(* answered with res                                                       *)
ServiceRunStatus(rs, res) ==
    IF DidRaise(res.raised)
    THEN ServiceExcept(rs, res.raised)
    ELSE [rs EXCEPT !.fuzzing_ok = TRUE,
                    !.verification_ok = Get(res.verification).success]

(* Base.reproduce / Base.verify: exit(run_status.exit_code) when it is     *)
(* set; otherwise the application closes with its default exit code 0.     *)
ProcessExitCode(rs) == IF IsNone(rs.exit_code) THEN 0 ELSE Get(rs.exit_code)

----------------------------------------------------------------------------
(* The handlers behind the controller.                                     *)

HandlerFailed(w) == [raised |-> Exc(DockerError, "Failed to run container"), value |-> None, w |-> w]

(* The CrashInfo constructor applied to a stored or parsed dictionary      *)
(* d = [dict, complete]                                                    *)
HandlerCrashInfo(w, d) ==
    IF IsNone(d.dict) \/ ~d.complete THEN HandlerFailed(w)
    ELSE [raised |-> NoExc, value |-> d.dict, w |-> w]

(* RunnerHandler.reproduce                                                 *)
handler_reproduce(w, r) ==
    IF ~IsNone(w.files.crash_file)
    THEN HandlerCrashInfo(w, Get(w.files.crash_file))
    ELSE LET rm == IF IsNone(check_container_exists(w, RUNNER))
                   THEN [raised |-> NoExc, w |-> w]
                   ELSE container_remove(w, RUNNER)
             run == run_container(rm.w, RUNNER, r.run, RunnerContainer(r))
             d == [dict |-> crash_info_dict(r.logs), complete |-> r.logs.complete]
         IN  IF DidRaise(run.raised) THEN HandlerFailed(run.w)
             ELSE IF Get(check_container_exit_code(run.w.containers[RUNNER])) = 1
             THEN HandlerCrashInfo([run.w EXCEPT !.files.crash_file = Some(d)], d)
             ELSE [raised |-> NoExc, value |-> None, w |-> run.w]

(* BuildHandler.get_project_base_image and get_project_fuzzer_container,   *)
(* as the container lifecycle manager is specified: the image is built     *)
(* unless it exists; a build container that exited with code 0 is reused,  *)
(* one in any other state is force-removed and run afresh.                 *)
handler_get_project_fuzzer_container(w, b) ==
    LET w1 == IF w.image THEN w ELSE build_image(w, b.build = "ok", TRUE).w
        old == w1.containers[FUZZER]
        reuse == ~IsNone(old) /\ Get(old).status = "exited" /\ Get(old).exit_code = 0
        rm == IF IsNone(old) THEN [raised |-> NoExc, w |-> w1] ELSE container_remove(w1, FUZZER)
        c == Container("exited", b.exit_code, TRUE, TRUE, FALSE, b.make_error)
        run == run_container(rm.w, FUZZER, b.run, c)
    IN  IF ~w1.image THEN [raised |-> Exc(DockerError, "Failed to build image"), w |-> w1]
        ELSE IF reuse THEN [raised |-> NoExc, w |-> w1]
        ELSE IF DidRaise(run.raised) THEN [raised |-> run.raised, w |-> run.w]
        ELSE [raised |-> NoExc, w |-> [run.w EXCEPT !.files.fuzzer = @ \/ b.target]]

(* Base._setup_fuzzer_container                                            *)
_setup_fuzzer_container(w, b) ==
    LET r == handler_get_project_fuzzer_container(w, b)
    IN  IF DidRaise(r.raised) THEN r
        ELSE IF Get(check_container_exit_code(r.w.containers[FUZZER])) # 0
        THEN [raised |-> Exc(OSVReproducerError, "exited with non-zero exit code"), w |-> r.w]
        ELSE r

(* The Run and Verify part of Base._run_and_handle: _run_reproduction,     *)
(* container_ran, _check_crash_info and the exit code.                     *)
ControllerRunAndVerify(m, ref, w, r, rs) ==
    LET got == handler_reproduce(w, r)
        fuzzer_container == check_container_exists(got.w, RUNNER)
        v == Verify(m, ref, got.value, FALSE)
    IN  IF DidRaise(got.raised)
        THEN [raised |-> got.raised, crash |-> None, verification |-> None, w |-> got.w,
              rs |-> ControllerExcept(rs, got.raised)]
        ELSE [raised |-> NoExc, crash |-> got.value, verification |-> Some(v), w |-> got.w,
              rs |-> [rs EXCEPT
                        !.fuzzing_ok = container_ran(fuzzer_container,
                                                     Some(ExpectedExitCode(m)), TRUE, TRUE),
                        !.verification_ok = v.success,
                        !.exit_code = check_container_exit_code(fuzzer_container)]]

----------------------------------------------------------------------------
(* Bounds and input sets                                                   *)
MaxExitCode == 2        \* reproduction containers exit with 0..MaxExitCode
MaxBuildExitCode == 1   \* build containers exit with 0..MaxBuildExitCode

RunExitCodes == 0..MaxExitCode
BuildExitCodes == 0..MaxBuildExitCode

(* The reference crash of the issue report and the crashes a run observes. *)
RefCrash == Crash("heap-buffer-overflow", "READ", Some(4), "0x602000000011", <<"f", "g">>)

ObservedCrashes ==
    { Crash("heap-buffer-overflow", "READ", Some(4), "0x602000000099", <<"f", "g">>),
      Crash("heap-use-after-free", "READ", Some(4), "0x602000000011", <<"f", "g">>),
      Crash("heap-buffer-overflow", "READ", Some(4), "0x602000000011", <<"__asan_memcpy", "f", "g">>),
      Crash("heap-buffer-overflow", "READ", Some(4), "0x602000000011", <<>>) }

LogKinds ==
    { Logs(FALSE, None, FALSE), Logs(TRUE, None, FALSE) }
    \cup { Logs(TRUE, Some(c), TRUE) : c \in ObservedCrashes }
    \cup { Logs(TRUE, Some(RefCrash), FALSE) }

ContextFields == {"git_fixes", "issue_report", "test_case", "range", "project_info", "snapshot"}

(* Every collaborator answers, or all but one or two of them do.           *)
ContextInputs ==
    { [f \in ContextFields |-> f \notin miss] :
        miss \in {m \in SUBSET ContextFields : Cardinality(m) <= 2} }

BuildInputs ==
    [project_path : BOOLEAN, build : {"ok", "failed"}, repos : BOOLEAN, run : BOOLEAN,
     exit_code : BuildExitCodes, make_error : BOOLEAN, target : BOOLEAN, api_fault : BOOLEAN]

RunInputs ==
    [testcase : BOOLEAN, run : BOOLEAN, exit_code : RunExitCodes, logs : LogKinds,
     error : BOOLEAN, api_fault : BOOLEAN]

(* Containers a previous invocation may have left behind.                  *)
LeftFuzzer ==
    { None,
      Some(Container("exited", 0, TRUE, TRUE, FALSE, FALSE)),
      Some(Container("exited", 0, TRUE, TRUE, FALSE, TRUE)),
      Some(Container("exited", 1, TRUE, TRUE, FALSE, TRUE)),
      Some(Container("running", 0, TRUE, TRUE, FALSE, FALSE)),
      Some(Container("created", 0, FALSE, FALSE, FALSE, FALSE)) }

LeftRunner ==
    { None,
      Some(Container("exited", 1, TRUE, TRUE, FALSE, FALSE)),
      Some(Container("exited", 0, TRUE, TRUE, FALSE, FALSE)),
      Some(Container("created", 0, FALSE, FALSE, FALSE, FALSE)) }

LeftCrash == { None, Some(RefCrash) }

W == World(containers, image, files, dlog, intermediate)

----------------------------------------------------------------------------
Init ==
    /\ entry \in {"service", "controller"}
    /\ mode \in ReproductionMode
    /\ pc = "context"
    /\ run_status = RunStatus
    /\ raised = NoExc
    /\ calls = <<>>
    /\ image \in BOOLEAN
    /\ intermediate = FALSE
    /\ \E f \in LeftFuzzer, r \in LeftRunner :
          containers = [n \in ContainerNames |-> IF n = FUZZER THEN f ELSE r]
    /\ \E t \in BOOLEAN, k \in LeftCrash :
          files = [fuzzer |-> t,
                   crash_info |-> IF entry = "service" THEN k ELSE None,
                   crash_file |-> IF entry = "controller" /\ ~IsNone(k)
                                  THEN Some([dict |-> k, complete |-> TRUE]) ELSE None]
    /\ dlog = <<>>
    /\ crash_info = None
    /\ verification = None
    /\ ran = None
    /\ gcs = None
    /\ vc = None
    /\ plog = None
    /\ names = None
    /\ NoLater

(* ReproducerService.__call__, Context phase                               *)
ServiceContext ==
    /\ entry = "service" /\ pc = "context"
    /\ \E c \in ContextInputs :
         LET e == ContextService(mode, c)
         IN  /\ calls' = Append(calls, "context")
             /\ raised' = e
             /\ IF DidRaise(e)
                THEN run_status' = ServiceExcept(run_status, e) /\ pc' = NextPc(e, "build")
                ELSE run_status' = [run_status EXCEPT !.context_ok = TRUE] /\ pc' = NextPc(e, "build")
    /\ UNCHANGED <<entry, mode, image, intermediate, containers, files, dlog, crash_info,
                   verification, units>>

(* ReproducerService.__call__, Build phase                                 *)
ServiceBuild ==
    /\ entry = "service" /\ pc = "build"
    /\ \E b \in BuildInputs :
         LET res == BuilderService(W, b)
         IN  /\ calls' = Append(calls, "builder")
             /\ raised' = res.raised
             /\ image' = res.w.image
             /\ intermediate' = res.w.intermediate
             /\ containers' = res.w.containers
             /\ files' = res.w.files
             /\ dlog' = res.w.dlog
             /\ IF DidRaise(res.raised)
                THEN run_status' = ServiceExcept(run_status, res.raised) /\ pc' = NextPc(res.raised, "run")
                ELSE run_status' = [run_status EXCEPT !.build_ok = TRUE] /\ pc' = NextPc(res.raised, "run")
    /\ UNCHANGED <<entry, mode, crash_info, verification, units>>

(* ReproducerService.__call__, Run and Verify phase                        *)
ServiceRun ==
    /\ entry = "service" /\ pc = "run"
    /\ \E r \in RunInputs :
         LET res == RunnerService(mode, RefCrash, W, r)
         IN  /\ calls' = Append(calls, "runner")
             /\ raised' = res.raised
             /\ image' = res.w.image
             /\ intermediate' = res.w.intermediate
             /\ containers' = res.w.containers
             /\ files' = res.w.files
             /\ dlog' = res.w.dlog
             /\ crash_info' = res.crash
             /\ verification' = res.verification
             /\ run_status' = ServiceRunStatus(run_status, res)
             /\ pc' = "done"
    /\ UNCHANGED <<entry, mode, units>>

(* Base._run_and_handle, _get_context                                      *)
ControllerContext ==
    /\ entry = "controller" /\ pc = "context"
    /\ \E c \in ContextInputs :
         LET e == _get_context(mode, c)
         IN  /\ calls' = Append(calls, "context")
             /\ raised' = e
             /\ IF DidRaise(e)
                THEN run_status' = ControllerExcept(run_status, e) /\ pc' = NextPc(e, "build")
                ELSE run_status' = run_status /\ pc' = NextPc(e, "build")
    /\ UNCHANGED <<entry, mode, image, intermediate, containers, files, dlog, crash_info,
                   verification, units>>

(* Base._run_and_handle, _setup_fuzzer_container                           *)
ControllerSetup ==
    /\ entry = "controller" /\ pc = "build"
    /\ \E b \in BuildInputs :
         LET res == _setup_fuzzer_container(W, b)
         IN  /\ calls' = Append(calls, "builder")
             /\ raised' = res.raised
             /\ image' = res.w.image
             /\ intermediate' = res.w.intermediate
             /\ containers' = res.w.containers
             /\ files' = res.w.files
             /\ dlog' = res.w.dlog
             /\ IF DidRaise(res.raised)
                THEN run_status' = ControllerExcept(run_status, res.raised) /\ pc' = NextPc(res.raised, "run")
                ELSE run_status' = [run_status EXCEPT !.setup_ok = TRUE] /\ pc' = NextPc(res.raised, "run")
    /\ UNCHANGED <<entry, mode, crash_info, verification, units>>

(* Base._run_and_handle, reproduction, verification and exit code          *)
ControllerRun ==
    /\ entry = "controller" /\ pc = "run"
    /\ \E r \in RunInputs :
         LET res == ControllerRunAndVerify(mode, RefCrash, W, r, run_status)
         IN  /\ calls' = Append(calls, "runner")
             /\ raised' = res.raised
             /\ image' = res.w.image
             /\ intermediate' = res.w.intermediate
             /\ containers' = res.w.containers
             /\ files' = res.w.files
             /\ dlog' = res.w.dlog
             /\ crash_info' = res.crash
             /\ verification' = res.verification
             /\ run_status' = res.rs
             /\ pc' = "done"
    /\ UNCHANGED <<entry, mode, units>>

Next ==
    \/ ServiceContext
    \/ ServiceBuild
    \/ ServiceRun
    \/ ControllerContext
    \/ ControllerSetup
    \/ ControllerRun

Spec == Init /\ [][Next]_vars

----------------------------------------------------------------------------
(* container_ran on its own: every container state and every combination   *)
(* of the optional checks.                                                 *)

(* No pipeline is running.                                                 *)
Idle ==
    /\ entry = "none" /\ mode = CRASH /\ pc = "idle"
    /\ run_status = RunStatus /\ raised = NoExc /\ calls = <<>>
    /\ image = FALSE /\ intermediate = FALSE
    /\ containers = [n \in ContainerNames |-> None]
    /\ files = [fuzzer |-> FALSE, crash_info |-> None, crash_file |-> None]
    /\ dlog = <<>> /\ crash_info = None /\ verification = None

MaxLogLen == 2          \* the combined logs have 0..MaxLogLen characters

LogTexts == UNION { [1..n -> {"ws", "ch"}] : n \in 0..MaxLogLen }

ContainerStates ==
    [status : {"", "created", "running", "exited"}, exit_code : RunExitCodes,
     started_at : {<<>>, ZeroTime, StartTime}, logs : LogTexts,
     error : {"", "error"}, oom_killed : BOOLEAN, make_error : {FALSE}]

RanArgs ==
    [container : {None} \cup {Some(c) : c \in ContainerStates},
     expected_exit_code : {None} \cup {Some(e) : e \in RunExitCodes},
     require_logs : BOOLEAN, require_no_error : BOOLEAN]

InitRan ==
    /\ Idle
    /\ \E a \in RanArgs : ran = [args |-> a, result |-> None]
    /\ gcs = None
    /\ vc = None
    /\ plog = None
    /\ names = None
    /\ NoLater

(* A caller evaluates container_ran on the container.                      *)
ContainerRan ==
    /\ IsNone(ran.result)
    /\ ran' = [ran EXCEPT !.result =
                  Some(container_ran(ran.args.container, ran.args.expected_exit_code,
                                     ran.args.require_logs, ran.args.require_no_error))]
    /\ UNCHANGED <<pipeline, gcs, vc, plog, names, later>>

NextRan == ContainerRan

SpecRan == InitRan /\ [][NextRan]_vars

----------------------------------------------------------------------------
(* The snapshot resolver on its own: get_snapshot called, and called       *)
(* again, with the same arguments on every store and cache.                *)
MaxTimestamp == 4       \* timestamps are 1..MaxTimestamp
MaxCalls == 2           \* get_snapshot is called at most MaxCalls times
MaxRev == 2             \* expected revisions are 1..MaxRev

Timestamps == 1..MaxTimestamp

SrcMapShapes == {"full", "norev", "noproj", "empty"}

Stores ==
    [srcmaps : SUBSET Timestamps, clutter : BOOLEAN, shape : SrcMapShapes,
     stamps : {Timestamps}]

SnapshotArgs ==
    [sanitizer : {"address", "memory"}, timestamp : Timestamps,
     commit_sha : {None} \cup {Some(r) : r \in 1..MaxRev}]

InitSnap ==
    /\ Idle
    /\ ran = None
    /\ vc = None
    /\ plog = None
    /\ names = None
    /\ NoLater
    /\ \E st \in Stores, a \in SnapshotArgs, sh \in SrcMapShapes \cup {"absent"},
          f \in {"none", "exists", "list", "download"} :
          gcs = [store |-> st, args |-> a, fault |-> f, calls |-> <<>>, results |-> <<>>,
                 cache |-> [t \in Timestamps |->
                              IF t = a.timestamp /\ sh # "absent"
                              THEN Some(SrcMapAt(t, sh)) ELSE None]]

(* One call of get_snapshot; the result is kept with the cache the call    *)
(* found and the calls it made.                                            *)
GetSnapshot ==
    /\ Len(gcs.results) < MaxCalls
    /\ LET r == get_snapshot(gcs, gcs.args)
       IN  gcs' = [r.g EXCEPT !.results =
                      Append(@, [raised |-> r.raised, value |-> r.value,
                                 found |-> gcs.cache,
                                 made |-> SubSeq(r.g.calls, Len(gcs.calls) + 1,
                                                 Len(r.g.calls))])]
    /\ UNCHANGED <<pipeline, ran, vc, plog, names, later>>

NextSnap == GetSnapshot

SpecSnap == InitSnap /\ [][NextSnap]_vars

----------------------------------------------------------------------------
(* verify_crash on its own: every reference and observed crash record,     *)
(* given to the service's and to the handler's verifier.                   *)
MaxStackLen == 2        \* reference stacks hold 0..MaxStackLen frames,
                        \* observed stacks up to one frame more

FrameNames == {"f", "g", "x"}

Sizes == {None, Some(0), Some(4), Some(8)}

Addresses == {"0x602000000011", "0x602000000099"}

StacksUpTo(len) == UNION { [1..n -> FrameNames] : n \in 0..len }

Stacks == StacksUpTo(MaxStackLen)

ObservedStacks == StacksUpTo(MaxStackLen + 1)

ReferenceCrashes ==
    { Crash("heap-buffer-overflow", "READ", sz, "0x602000000011", st) :
        sz \in Sizes \ {Some(8)}, st \in Stacks }

CrashRecords ==
    { Crash(imp, op, sz, addr, st) :
        imp \in {"heap-buffer-overflow", "heap-use-after-free"},
        op \in {"READ", "WRITE"},
        sz \in Sizes \ {Some(0)},
        addr \in Addresses,
        st \in ObservedStacks }

InitVerify ==
    /\ Idle
    /\ ran = None
    /\ gcs = None
    /\ plog = None
    /\ names = None
    /\ NoLater
    /\ \E ref \in ReferenceCrashes, obs \in CrashRecords :
          vc = [ref |-> ref, obs |-> obs, service |-> None, handler |-> None]

(* RunnerService.verify_crash is called on the pair.                       *)
ServiceVerifyCrash ==
    /\ IsNone(vc.service)
    /\ vc' = [vc EXCEPT !.service = Some(verify_crash(vc.ref, vc.obs))]
    /\ UNCHANGED <<pipeline, ran, gcs, plog, names, later>>

(* RunnerHandler.verify_crash is called on the pair.                       *)
HandlerVerifyCrash ==
    /\ IsNone(vc.handler)
    /\ vc' = [vc EXCEPT !.handler = Some(handler_verify_crash(vc.ref, vc.obs))]
    /\ UNCHANGED <<pipeline, ran, gcs, plog, names, later>>

NextVerify ==
    \/ ServiceVerifyCrash
    \/ HandlerVerifyCrash

SpecVerify == InitVerify /\ [][NextVerify]_vars

----------------------------------------------------------------------------
(* The crash log parser (utils/parse/log.py).  A log line is a sequence of *)
(* tokens; "ws" is one whitespace character, and a piece of text that one  *)
(* of the regular expressions matches as a whole is a single token.  A     *)
(* substring test is a test for a contiguous run of tokens.                *)
Occurs(line, pat, i) ==
    /\ i >= 1
    /\ i + Len(pat) - 1 <= Len(line)
    /\ SubSeq(line, i, i + Len(pat) - 1) = pat

(* str.find, 1-based; 0 when the pattern does not occur                    *)
Find(line, pat) ==
    LET hits == {i \in 1..Len(line) : Occurs(line, pat, i)}
    IN  IF hits = {} THEN 0 ELSE CHOOSE i \in hits : \A j \in hits : i <= j

StartsWith(line, pat) == Occurs(line, pat, 1)

Contains(line, pat) == Find(line, pat) > 0

(* str.split(sep)                                                          *)
RECURSIVE Split(_, _)
Split(line, sep) ==
    LET i == Find(line, sep)
    IN  IF i = 0
        THEN <<line>>
        ELSE <<SubSeq(line, 1, i - 1)>>
                \o Split(SubSeq(line, i + Len(sep), Len(line)), sep)

(* re.search of a pattern in a text: the groups of the first matching      *)
(* token, None without a match.  A pattern is the function from the texts  *)
(* it matches to their groups.                                             *)
Search(pattern, text) ==
    LET hits == {i \in 1..Len(text) : text[i] \in DOMAIN pattern}
    IN  IF hits = {} THEN None
        ELSE Some(pattern[text[CHOOSE i \in hits : \A j \in hits : i <= j]])

DescOverflow == "heap-buffer-overflow on address 0x602000000011 at pc 0x55 bp 0x7f sp 0x7e"
DescSegv == "SEGV on unknown address 0x000000000000"
DescDoubleFree == "attempting double-free on 0x602000000011 in thread T0"
AccessRead == "READ of size 4 at 0x602000000099 thread T0"
SignalRead == "The signal is caused by a READ memory access."

MEMORY_ACCESS_PATTERN ==
    AccessRead :> [operation |-> "READ", size |-> 4, address |-> "0x602000000099"]

SIGNAL_PATTERN == SignalRead :> [operation |-> "READ"]

DESCRIPTION_PATTERN ==
    DescOverflow :> [impact |-> "heap-buffer-overflow", address |-> "0x602000000011"]

SEGV_PATTERN == DescSegv :> [address |-> "0x000000000000"]

NotFound == -1

(* The banner test of find_error_start without the test of the line's     *)
(* beginning.                                                              *)
is_error_banner_Anywhere(line) == Contains(line, <<"==", "ERROR">>)

(* The banner test of find_error_start: the stripped line starts with "==" *)
(* and the line contains "==ERROR"                                         *)
is_error_banner(line) ==
    StartsWith(Strip(line), <<"==">>) /\ Contains(line, <<"==", "ERROR">>)

(* find_error_start: 0-based index of the first banner line whose trailing *)
(* segment matches, with the description; (-1, None) when there is none    *)
find_error_start(log_lines) ==
    LET Parts(line) == Split(line, <<":">>)
        Last(line) == Parts(line)[Len(Parts(line))]
        Described(line) ==
            /\ Len(Parts(line)) > 2
            /\ \/ ~IsNone(Search(DESCRIPTION_PATTERN, Last(line)))
               \/ ~IsNone(Search(SEGV_PATTERN, Last(line)))
        hits == {i \in 1..Len(log_lines) :
                    is_error_banner(log_lines[i]) /\ Described(log_lines[i])}
    IN  IF hits = {}
        THEN [start_idx |-> NotFound, info |-> None]
        ELSE LET i == CHOOSE i \in hits : \A j \in hits : i <= j
                 match == Search(DESCRIPTION_PATTERN, Last(log_lines[i]))
                 segv_match == Search(SEGV_PATTERN, Last(log_lines[i]))
             IN  [start_idx |-> i - 1,
                  info |-> IF ~IsNone(match)
                           THEN Some(("impact" :> Get(match).impact)
                                     @@ ("address" :> Get(match).address))
                           ELSE Some(("impact" :> "SEGV")
                                     @@ ("address" :> Get(segv_match).address))]

(* The empty dictionary                                                    *)
EmptyDict == [k \in {} |-> None]

(* dict.update: entries of `other` replace those of `d`                    *)
Update(d, other) == other @@ d

(* extract_error_info: operation, size and address from the line after the *)
(* banner                                                                  *)
extract_error_info(log_lines, start_idx) ==
    IF start_idx = NotFound \/ start_idx + 1 >= Len(log_lines)
    THEN EmptyDict
    ELSE LET error_line == log_lines[start_idx + 2]
             match == Search(MEMORY_ACCESS_PATTERN, error_line)
             signal_match == Search(SIGNAL_PATTERN, error_line)
         IN  IF ~IsNone(match)
             THEN ("operation" :> Get(match).operation)
                  @@ ("size" :> Some(Get(match).size))
                  @@ ("address" :> Get(match).address)
             ELSE IF StartsWith(Strip(error_line), <<"==">>) /\ ~IsNone(signal_match)
                  THEN ("operation" :> Get(signal_match).operation) @@ ("size" :> None)
                  ELSE EmptyDict

(* A collection that never ends the main trace: every frame line up to    *)
(* the SUMMARY line is taken.                                              *)
RECURSIVE collect_every_frame_loop(_, _, _)
collect_every_frame_loop(log_lines, i, trace_lines) ==
    IF i > Len(log_lines) \/ StartsWith(log_lines[i], <<"SUMMARY", ":">>)
    THEN trace_lines
    ELSE collect_every_frame_loop(
             log_lines, i + 1,
             IF StartsWith(Strip(log_lines[i]), <<"#">>)
             THEN Append(trace_lines, Strip(log_lines[i])) ELSE trace_lines)

collect_stack_trace_EveryFrame(log_lines, start_idx) ==
    collect_every_frame_loop(log_lines, start_idx + 1, <<>>)

(* collect_stack_trace: the loop from 1-based line i on, with the lines    *)
(* collected so far and the main_trace_ended flag                          *)
RECURSIVE collect_stack_trace_loop(_, _, _, _)
collect_stack_trace_loop(log_lines, i, trace_lines, main_trace_ended) ==
    IF i > Len(log_lines) \/ StartsWith(log_lines[i], <<"SUMMARY", ":">>)
    THEN trace_lines
    ELSE LET line == Strip(log_lines[i])
         IN  IF StartsWith(line, <<"#">>)
             THEN collect_stack_trace_loop(
                      log_lines, i + 1,
                      IF main_trace_ended THEN trace_lines ELSE Append(trace_lines, line),
                      main_trace_ended)
             ELSE collect_stack_trace_loop(
                      log_lines, i + 1, trace_lines,
                      main_trace_ended
                         \/ (trace_lines # <<>> /\ ~StartsWith(line, <<"DEDUP_TOKEN", ":">>)))

collect_stack_trace(log_lines, start_idx) ==
    collect_stack_trace_loop(log_lines, start_idx + 1, <<>>, FALSE)

create_frame(function, file) == [function |-> function, file |-> file]

create_stack_dict(frames) == [frames |-> frames]

(* parse_stack_frame: "#N address in function file"; None without " in "   *)
parse_stack_frame(line) ==
    LET sep == <<"ws", "in", "ws">>
        i == Find(line, sep)
        location_part == Strip(SubSeq(line, i + Len(sep), Len(line)))
        j == Find(location_part, <<"ws">>)
        function == IF j = 0 THEN location_part ELSE SubSeq(location_part, 1, j - 1)
        file == IF j = 0 THEN <<>> ELSE SubSeq(location_part, j + 1, Len(location_part))
    IN  IF i = 0 THEN None ELSE Some(create_frame(function, file))

(* The frames of the trace lines that parse, in order                      *)
RECURSIVE parse_frames(_)
parse_frames(trace_lines) ==
    IF trace_lines = <<>> THEN <<>>
    ELSE LET frame == parse_stack_frame(Head(trace_lines))
         IN  (IF IsNone(frame) THEN <<>> ELSE <<Get(frame)>>)
                \o parse_frames(Tail(trace_lines))

(* parse_reproduce_logs_to_dict                                            *)
parse_reproduce_logs_to_dict(log_lines) ==
    LET found == find_error_start(log_lines)
        start_idx == found.start_idx
        error_info == extract_error_info(log_lines, start_idx)
        trace_lines == collect_stack_trace(log_lines, start_idx)
        frames == parse_frames(trace_lines)
        parsed == Update(Get(found.info), error_info)
    IN  IF start_idx = NotFound
        THEN EmptyDict
        ELSE IF frames # <<>>
             THEN Update(parsed, "stack" :> create_stack_dict(frames))
             ELSE parsed

----------------------------------------------------------------------------
(* The parser on its own: every log of up to MaxLogLines lines drawn from  *)
(* LogLines, and every log made of a banner and up to MaxTraceLines lines  *)
(* drawn from TraceLines, parsed twice.                                    *)
MaxLogLines == 3
MaxTraceLines == 4

BannerLine(description) ==
    <<"==", "7", "==", "ERROR", ":", "ws", "AddressSanitizer", ":", "ws", description>>

FrameLine(number, function, file) ==
    <<"ws", "ws", "#", number, "ws", "0x55d0", "ws", "in", "ws", function, "ws", file>>

FrameLineNoFunction == <<"ws", "ws", "#", "2", "ws", "0x7f00", "ws", "(libc.so+0x29d8f)">>
DedupLine == <<"DEDUP_TOKEN", ":", "ws", "f--g">>
SummaryLine == <<"SUMMARY", ":", "ws", "AddressSanitizer", ":", "ws", "heap-buffer-overflow">>
InfoLine == <<"INFO", ":", "ws", "Seed", ":", "ws", "1">>

TraceLines ==
    { FrameLine("0", "f", "a.c"), FrameLine("1", "g", "b.c"), FrameLineNoFunction,
      DedupLine, SummaryLine, InfoLine }

LogLines ==
    { BannerLine(DescOverflow),
      <<"ws">> \o BannerLine(DescOverflow),
      BannerLine(DescSegv),
      BannerLine(DescDoubleFree),
      <<"==", "7", "==", "ERROR", ":", "ws", DescOverflow>>,
      <<"INFO", "ws", "==", "ERROR", ":", "ws", "AddressSanitizer", ":", "ws", DescOverflow>>,
      <<AccessRead>>,
      <<"==", "7", "==", SignalRead>> }
    \cup TraceLines

TraceLogs ==
    { <<BannerLine(DescOverflow)>> \o trace :
        trace \in UNION { [1..n -> TraceLines] : n \in 0..MaxTraceLines } }

ParserLogs == UNION { [1..n -> LogLines] : n \in 0..MaxLogLines } \cup TraceLogs

InitParse ==
    /\ Idle
    /\ ran = None
    /\ gcs = None
    /\ vc = None
    /\ names = None
    /\ NoLater
    /\ \E log_lines \in ParserLogs : plog = [log_lines |-> log_lines, results |-> <<>>]

(* parse_reproduce_logs_to_dict is called on the log lines, a first and a  *)
(* second time.                                                            *)
ParseLogs ==
    /\ Len(plog.results) < 2
    /\ plog' = [plog EXCEPT
                   !.results = Append(@, parse_reproduce_logs_to_dict(plog.log_lines))]
    /\ UNCHANGED <<pipeline, ran, gcs, vc, names, later>>

NextParse == ParseLogs

SpecParse == InitParse /\ [][NextParse]_vars

----------------------------------------------------------------------------
(* ReproductionContext (core/models/context.py) and its derived container  *)
(* names.  A string is a sequence of tokens and an f-string concatenates.   *)
ReproductionContext(m, project, id, snapshot, timestamp) ==
    [mode |-> m, project |-> project, id |-> id, snapshot |-> snapshot,
     timestamp |-> timestamp]

fuzzer_container_name(c) == c.project \o <<"_">> \o c.timestamp

runner_container_name(c) == c.project \o <<"_">> \o c.id \o <<"_">> \o <<c.mode>>

run_fuzzer_container_name(c) ==
    c.project \o <<"_">> \o c.id \o <<"_">> \o <<c.mode>> \o <<"_", "run">>

container_names(c) ==
    [fuzzer |-> fuzzer_container_name(c),
     runner |-> runner_container_name(c),
     run_fuzzer |-> run_fuzzer_container_name(c)]

(* Two contexts, as two pipeline invocations build them, and the names     *)
(* each invocation derives.                                                *)
Projects == {<<"curl">>, <<"libxml2">>}
IssueIds == {<<"42470">>, <<"42471">>}
ContextTimestamps == {<<"202401010000">>, <<"202401020000">>}
Snapshots == {SrcMapAt(1, "full"), SrcMapAt(2, "full")}

Contexts ==
    { ReproductionContext(m, p, i, s, t) :
        m \in ReproductionMode, p \in Projects, i \in IssueIds,
        s \in Snapshots, t \in ContextTimestamps }

Invocations == {"first", "retry"}

InitNames ==
    /\ Idle
    /\ ran = None
    /\ gcs = None
    /\ vc = None
    /\ plog = None
    /\ NoLater
    /\ \E a, b \in Contexts :
          names = [context |-> [x \in Invocations |-> IF x = "first" THEN a ELSE b],
                   derived |-> [x \in Invocations |-> None]]

(* An invocation reads the name properties of its context.                 *)
DeriveNames ==
    \E x \in Invocations :
        /\ IsNone(names.derived[x])
        /\ names' = [names EXCEPT !.derived[x] = Some(container_names(names.context[x]))]
        /\ UNCHANGED <<pipeline, ran, gcs, vc, plog, later>>

NextNames == DeriveNames

SpecNames == InitNames /\ [][NextNames]_vars

----------------------------------------------------------------------------
(* The snapshot search of FIX mode (Base._get_snapshot_for_fix_mode).      *)
(* The record's git ranges are taken in the order of osv_record.affected;  *)
(* a range is [repo, fixes], fixes being the versions of its fixed events  *)
(* in record order.  A committer date is <<minute, second>>; a timestamp   *)
(* is the minute count that strftime("%Y%m%d%H%M") prints.                  *)
GitHubError == "GitHubError"

OFFSET_MINUTES == 4     \* timedelta(minutes=4)

MainRepo == "github.com/acme/proj"
OtherRepo == "github.com/acme/dep"

(* GithubHandler.get_repo_id                                               *)
get_repo_id(repo) == IF repo = MainRepo THEN 1 ELSE 2

main_repo_id == get_repo_id(MainRepo)

Versions == {"v1", "v2"}

GitCommit(sha, date) == [sha |-> sha, date |-> date]

(* GithubHandler.get_commit: None stands for the GitHubError it raises     *)
(* when the repository has no such commit.                                 *)
get_commit(known, version) ==
    IF version \notin known THEN None
    ELSE IF version = "v1" THEN Some(GitCommit(1, <<5, 30>>))
    ELSE Some(GitCommit(2, <<7, 0>>))

(* date - timedelta(minutes=n)                                             *)
minus_minutes(date, n) == <<date[1] - n, date[2]>>

(* date.strftime("%Y%m%d%H%M"): the seconds are not printed                *)
strftime(date) == date[1]

(* A search that looks at the ranges of every repository.                  *)
is_main_repo_Any(repo) == TRUE

(* project_info.main_repo_id == repo_id                                    *)
is_main_repo(repo) == main_repo_id = get_repo_id(repo)

(* The state of the search: the handler g, visited_commits, the            *)
(* get_snapshot requests made, timestamp and snapshot as last assigned,    *)
(* found (the loop returned), raised.                                      *)
SearchStart(g) ==
    [g |-> g, visited_commits |-> <<>>, requests |-> <<>>, timestamp |-> None,
     snapshot |-> None, found |-> FALSE, raised |-> NoExc]

RECURSIVE search_fixes(_, _, _, _)
(* The loop over git_range.get_fixed_events()                              *)
search_fixes(known, fixes, j, st) ==
    IF j > Len(fixes) THEN st
    ELSE LET visited == Append(st.visited_commits, fixes[j])
             commit == get_commit(known, fixes[j])
         IN  IF IsNone(commit)
             THEN [st EXCEPT !.visited_commits = visited,
                             !.raised = Exc(GitHubError, "not found")]
             ELSE LET timestamp == strftime(minus_minutes(Get(commit).date, OFFSET_MINUTES))
                      a == [sanitizer |-> "address", timestamp |-> timestamp,
                            commit_sha |-> Some(Get(commit).sha)]
                      r == get_snapshot(st.g, a)
                      st1 == [st EXCEPT !.visited_commits = visited,
                                        !.requests = Append(@, a),
                                        !.timestamp = Some(timestamp),
                                        !.g = r.g]
                  IN  IF DidRaise(r.raised) THEN [st1 EXCEPT !.raised = r.raised]
                      ELSE IF TruthyDict(r.value)
                      THEN [st1 EXCEPT !.snapshot = r.value, !.found = TRUE]
                      ELSE search_fixes(known, fixes, j + 1, [st1 EXCEPT !.snapshot = r.value])

RECURSIVE search_ranges(_, _, _, _)
(* The loops over osv_record.affected and affected.get_git_ranges()        *)
search_ranges(known, ranges, i, st) ==
    IF i > Len(ranges) \/ st.found \/ DidRaise(st.raised) THEN st
    ELSE IF is_main_repo(ranges[i].repo)
    THEN search_ranges(known, ranges, i + 1, search_fixes(known, ranges[i].fixes, 1, st))
    ELSE search_ranges(known, ranges, i + 1, st)

(* Base._get_snapshot_for_fix_mode                                         *)
_get_snapshot_for_fix_mode(known, ranges, g) == search_ranges(known, ranges, 1, SearchStart(g))

(* Base._get_context from the snapshot selection on, in FIX mode: the      *)
(* exception it ends with.                                                 *)
fix_context(st) ==
    IF DidRaise(st.raised) THEN st.raised
    ELSE _get_context(FIX, [git_fixes |-> TRUE, issue_report |-> TRUE, test_case |-> TRUE,
                            range |-> TRUE, project_info |-> TRUE,
                            snapshot |-> TruthyDict(st.snapshot)])

MaxRanges == 2          \* git ranges of a record
MaxFixes == 2           \* fixed events of a git range

FixLists == UNION { [1..n -> Versions] : n \in 0..MaxFixes }

(* A range of another repository carries one fixed event.                  *)
GitRanges == [repo : {MainRepo}, fixes : FixLists] \cup [repo : {OtherRepo}, fixes : {<<"v2">>}]

Records == UNION { [1..n -> GitRanges] : n \in 0..MaxRanges }

FixStores ==
    [srcmaps : {{}, {1}, {3}, {1, 3}}, clutter : {FALSE}, shape : {"full", "noproj"},
     stamps : {Timestamps}]

InitFix ==
    /\ Idle
    /\ ran = None /\ gcs = None /\ vc = None /\ plog = None /\ names = None
    /\ race = None /\ twin = None
    /\ \E rec \in Records, st \in FixStores, f \in {"none", "download"},
          known \in {Versions, {"v1"}} :
          fix = [ranges |-> rec, known |-> known,
                 g |-> [store |-> st, fault |-> f, calls |-> <<>>,
                        cache |-> [t \in Timestamps |-> None]],
                 result |-> None, error |-> None]

(* Base._get_context in FIX mode, from the snapshot selection on           *)
FixContext ==
    /\ ~IsNone(fix) /\ IsNone(fix.result)
    /\ LET st == _get_snapshot_for_fix_mode(fix.known, fix.ranges, fix.g)
       IN  fix' = [fix EXCEPT !.result = Some(st), !.error = Some(fix_context(st))]
    /\ UNCHANGED <<pipeline, ran, gcs, vc, plog, names, race, twin>>

NextFix == FixContext

SpecFix == InitFix /\ [][NextFix]_vars

----------------------------------------------------------------------------
(* Two pipeline invocations for the same project, issue and mode on one    *)
(* container runtime.  Each runtime call is one step; the runtime binds a  *)
(* name to at most one container, a container being known by its id.      *)
(* A build container is started and runs to its exit in one step; a        *)
(* reproduction container is started in one step and its logs and exit     *)
(* code are read in the next.  Containers left by earlier runs and built   *)
(* here exited with code 0.                                                *)
Invocation == {"a", "b"}

CheckSteps == {"build_check", "run_check"}

NameOf(step) == IF step \in {"build_check", "build_run"} THEN FUZZER ELSE RUNNER

Call2(p, op, name) == [by |-> p, op |-> op, name |-> name]

RaceEnd(rc, p, error) == [rc EXCEPT !.pc[p] = "done", !.outcome[p] = error]

(* services/runner.py: container.remove(force=True) on the container the   *)
(* check returned; the runtime answers NotFound for an id that is gone.    *)
RaceRemove(rc, p) ==
    LET rc1 == [rc EXCEPT !.ops = Append(@, Call2(p, "remove", RUNNER))]
    IN  IF rc.rt[RUNNER] = rc.seen[p]
        THEN [rc1 EXCEPT !.rt[RUNNER] = None, !.removed = @ \cup {Get(rc.seen[p])},
                         !.pc[p] = "run_run"]
        ELSE RaceEnd(rc1, p, RunnerError)

(* docker_handler.run_container of BuilderService and of                   *)
(* RunnerService.reproduce: the runtime refuses a name that is in use.     *)
RaceRun(rc, p) ==
    LET name == NameOf(rc.pc[p])
        rc1 == [rc EXCEPT !.ops = Append(@, Call2(p, "run_container", name))]
    IN  IF IsNone(rc.rt[name])
        THEN [rc1 EXCEPT !.rt[name] = Some(rc.next_id), !.next_id = @ + 1,
                         !.held[p] = Some(rc.next_id),
                         !.pc[p] = IF name = FUZZER THEN "run_check" ELSE "run_logs"]
        ELSE RaceEnd(rc1, p, IF name = FUZZER THEN BuilderError ELSE RunnerError)

(* stream_container_logs and check_container_exit_code of reproduce        *)
RaceLogs(rc, p) ==
    IF rc.rt[RUNNER] = rc.held[p] THEN RaceEnd(rc, p, "none")
    ELSE RaceEnd(rc, p, RunnerError)

(* A check that holds the name until its invocation has acted on it.       *)
RaceCheck_Atomic(rc, p) ==
    LET name == NameOf(rc.pc[p])
        seen == [rc EXCEPT !.seen[p] = rc.rt[name]]
    IN  IF IsNone(rc.rt[name]) THEN RaceRun([seen EXCEPT !.pc[p] = IF name = FUZZER THEN "build_run" ELSE "run_run"], p)
        ELSE IF name = FUZZER THEN [seen EXCEPT !.pc[p] = "run_check"]
        ELSE RaceRun(RaceRemove(seen, p), p)

(* check_container_exists of BuilderService.__call__ and of                *)
(* RunnerService.reproduce, and the branch taken on its answer.            *)
RaceCheck(rc, p) ==
    LET name == NameOf(rc.pc[p])
        seen == [rc EXCEPT !.seen[p] = check_container_exists([containers |-> rc.rt], name)]
    IN  IF name = FUZZER
        THEN [seen EXCEPT !.pc[p] = IF IsNone(seen.seen[p]) THEN "build_run" ELSE "run_check"]
        ELSE [seen EXCEPT !.pc[p] = IF IsNone(seen.seen[p]) THEN "run_run" ELSE "run_remove"]

(* A container left by an earlier run has id 0.                            *)
InitRace ==
    /\ Idle
    /\ ran = None /\ gcs = None /\ vc = None /\ plog = None /\ names = None
    /\ fix = None /\ twin = None
    /\ \E f, r \in {None, Some(0)} :
          race = [rt |-> [n \in ContainerNames |-> IF n = FUZZER THEN f ELSE r],
                  next_id |-> 1,
                  removed |-> {},
                  pc |-> [p \in Invocation |-> "build_check"],
                  seen |-> [p \in Invocation |-> None],
                  held |-> [p \in Invocation |-> None],
                  outcome |-> [p \in Invocation |-> "none"],
                  ops |-> <<>>]

RaceUnchanged == UNCHANGED <<pipeline, ran, gcs, vc, plog, names, fix, twin>>

CheckStep(p) ==
    /\ race.pc[p] \in CheckSteps
    /\ race' = RaceCheck(race, p)
    /\ RaceUnchanged

RemoveStep(p) ==
    /\ race.pc[p] = "run_remove"
    /\ race' = RaceRemove(race, p)
    /\ RaceUnchanged

RunStep(p) ==
    /\ race.pc[p] \in {"build_run", "run_run"}
    /\ race' = RaceRun(race, p)
    /\ RaceUnchanged

LogsStep(p) ==
    /\ race.pc[p] = "run_logs"
    /\ race' = RaceLogs(race, p)
    /\ RaceUnchanged

NextRace ==
    \E p \in Invocation :
        \/ CheckStep(p)
        \/ RemoveStep(p)
        \/ RunStep(p)
        \/ LogsStep(p)

SpecRace == InitRace /\ [][NextRace]_vars

----------------------------------------------------------------------------
(* Two calls of get_snapshot with equal arguments on one snapshot cache.   *)
(* The steps of a call: the cache check (_get_cached_snapshot), the        *)
(* download (file_exists to _update_snapshot_version), and the two halves  *)
(* of _save_snapshot: open(mode="w"), which truncates the file, and        *)
(* json.dump, which fills it.  torn says that the cache file of the        *)
(* requested timestamp exists but does not hold a whole document;          *)
(* json.load of such a file raises JSONDecodeError, outside the try block  *)
(* of get_snapshot.                                                        *)
Getter == {"a", "b"}

TwinEnd(tw, p, e, value) ==
    [tw EXCEPT !.pc[p] = "done", !.outcome[p] = [raised |-> e, value |-> value]]

(* A cache check that reads a torn file as an empty document.              *)
TwinCheck_ReadsTorn(tw, p) ==
    LET cached == _get_cached_snapshot(tw.g, tw.args.timestamp)
    IN  IF tw.torn THEN TwinEnd(tw, p, NoExc, Some(EmptyMap))
        ELSE IF TruthyDict(cached) THEN TwinEnd(tw, p, NoExc, cached)
        ELSE [tw EXCEPT !.pc[p] = "download"]

(* get_snapshot, the cache check                                           *)
TwinCheck(tw, p) ==
    LET cached == _get_cached_snapshot(tw.g, tw.args.timestamp)
    IN  IF tw.torn THEN TwinEnd(tw, p, Exc(Unexpected, "JSONDecodeError"), None)
        ELSE IF TruthyDict(cached) THEN TwinEnd(tw, p, NoExc, cached)
        ELSE [tw EXCEPT !.pc[p] = "download"]

(* get_snapshot from file_exists to _update_snapshot_version: what a call  *)
(* that found nothing cached obtains from the store.                       *)
TwinDownload(tw, p) ==
    LET r == get_snapshot([tw.g EXCEPT !.cache = [t \in DOMAIN tw.g.cache |-> None]], tw.args)
        tw1 == [tw EXCEPT !.g.calls = tw.g.calls \o <<Call("download", tw.args.timestamp)>>]
    IN  IF DidRaise(r.raised) THEN TwinEnd(tw1, p, r.raised, None)
        ELSE IF IsNone(r.value) THEN TwinEnd(tw1, p, NoExc, None)
        ELSE [tw1 EXCEPT !.got[p] = r.value, !.pc[p] = "open"]

(* _save_snapshot, snapshot_file_path.open(mode="w")                       *)
TwinOpen(tw, p) == [tw EXCEPT !.torn = TRUE, !.pc[p] = "dump"]

(* _save_snapshot, json.dump, and the return of get_snapshot; torn is      *)
(* whether the file is left without a whole document, which can be when    *)
(* another writer truncated it meanwhile.                                  *)
TwinDump(tw, p, torn) ==
    LET tw1 == [tw EXCEPT !.g = _save_snapshot(tw.g, Get(tw.got[p]), tw.args.timestamp),
                          !.torn = torn,
                          !.wrote = @ \cup {p}]
    IN  TwinEnd(tw1, p, NoExc, tw.got[p])

TwinStores ==
    [srcmaps : {{}, {1}, {2}}, clutter : {FALSE}, shape : {"full", "empty", "noproj"},
     stamps : {Timestamps}]

TwinArgs ==
    [sanitizer : {"address"}, timestamp : {2}, commit_sha : {None, Some(2)}]

InitTwin ==
    /\ Idle
    /\ ran = None /\ gcs = None /\ vc = None /\ plog = None /\ names = None
    /\ fix = None /\ race = None
    /\ \E st \in TwinStores, a \in TwinArgs, f \in {"none", "download"},
          c \in {None, Some(SrcMapAt(2, "full"))} :
          twin = [g |-> [store |-> st, fault |-> f, calls |-> <<>>,
                         cache |-> [t \in Timestamps |-> IF t = a.timestamp THEN c ELSE None]],
                  args |-> a,
                  found |-> c,
                  torn |-> FALSE,
                  pc |-> [p \in Getter |-> "check"],
                  got |-> [p \in Getter |-> None],
                  wrote |-> {},
                  outcome |-> [p \in Getter |-> [raised |-> NoExc, value |-> None]]]

TwinUnchanged == UNCHANGED <<pipeline, ran, gcs, vc, plog, names, fix, race>>

TwinCheckStep(p) ==
    /\ twin.pc[p] = "check"
    /\ twin' = TwinCheck(twin, p)
    /\ TwinUnchanged

TwinDownloadStep(p) ==
    /\ twin.pc[p] = "download"
    /\ twin' = TwinDownload(twin, p)
    /\ TwinUnchanged

TwinOpenStep(p) ==
    /\ twin.pc[p] = "open"
    /\ twin' = TwinOpen(twin, p)
    /\ TwinUnchanged

TwinDumpStep(p) ==
    /\ twin.pc[p] = "dump"
    /\ \E torn \in IF \E q \in Getter \ {p} : twin.pc[q] = "dump" THEN BOOLEAN ELSE {FALSE} :
          twin' = TwinDump(twin, p, torn)
    /\ TwinUnchanged

NextTwin ==
    \E p \in Getter :
        \/ TwinCheckStep(p)
        \/ TwinDownloadStep(p)
        \/ TwinOpenStep(p)
        \/ TwinDumpStep(p)

SpecTwin == InitTwin /\ [][NextTwin]_vars

----------------------------------------------------------------------------
(* Properties                                                              *)

PhaseOrder == <<"context", "builder", "runner">>

Done == pc = "done"
Service == entry = "service"
Controller == entry = "controller"

(* The run started a container of that name / built the image.             *)
Ran(name) == \E i \in 1..Len(dlog) : dlog[i] = Op("run_container", name)
Removed(name) == \E i \in 1..Len(dlog) : dlog[i] = Op("remove", name)

(* Context resolution and the build succeeded.                             *)
ReachedRun == Len(calls) = 3

(* C1: the collaborators are invoked in the order context, builder,        *)
(* runner, each at most once, and once a collaborator has raised no        *)
(* further collaborator is invoked (after the context service raises       *)
(* neither builder nor runner runs; after the builder raises the runner    *)
(* does not run).                                                          *)
C1_PhasesGated ==
    [][ /\ DidRaise(raised) => calls' = calls
        /\ calls' # calls =>
              /\ Len(calls) < Len(PhaseOrder)
              /\ calls' = Append(calls, PhaseOrder[Len(calls) + 1]) ]_vars

C1_Witness ==
    /\ Service /\ Done
    /\ raised.kind = ContextError
    /\ calls = <<"context">>

(* C2: in CRASH mode, when context and build succeed, the reproduction     *)
(* container started by the run exits with code 1 (with logs and no error  *)
(* flag) and the parsed crash matches the reference, the phase flags are   *)
(* all true and the exit code is 0.                                        *)
C2_CrashReproducedExitsZero ==
    ( /\ Done /\ mode = CRASH /\ ReachedRun /\ Ran(RUNNER)
      /\ raised.kind # Unexpected
      /\ container_ran(containers[RUNNER], Some(1), TRUE, TRUE)
      /\ ~IsNone(crash_info)
      /\ Get(crash_info).impact = RefCrash.impact
      /\ Get(crash_info).operation = RefCrash.operation
      /\ Get(crash_info).size = RefCrash.size
      /\ Get(crash_info).stack # <<>>
      /\ Get(crash_info).stack[1] = RefCrash.stack[1] )
    => /\ Service => run_status.context_ok /\ run_status.build_ok
       /\ run_status.fuzzing_ok
       /\ run_status.verification_ok
       /\ ProcessExitCode(run_status) = 0

ExpectedContextFailures ==
    { "No fixes found", "Could not find an OSS-Fuzz Issue Report",
      "Could not get the testcase", "Could not find project info",
      "Could not get snapshot" }

C4_ContextFailureStops ==
    raised.msg \in ExpectedContextFailures
    => /\ Done
       /\ calls = <<"context">>
       /\ dlog = <<>>
       /\ ~run_status.context_ok
       /\ run_status.exit_code = Some(2)

C4_Witness ==
    /\ Done /\ mode = CRASH
    /\ raised.msg = "Could not get snapshot"
    /\ run_status.exit_code = Some(2)

(* C5: a ContextError, BuilderError or RunnerError ends the call with exit *)
(* code 2 and error set, any other exception with exit code 70 and error   *)
(* set; every exception ends the call with a RunStatus, and 70 never       *)
(* comes from one of the three domain errors.  The controller maps         *)
(* OSVReproducerError to 2 and any other exception to 70.                  *)
C5_ExitCodeByKind ==
    /\ DidRaise(raised) => Done /\ ~IsNone(run_status.exit_code)
    /\ (Service /\ raised.kind \in DomainErrors)
          => run_status.exit_code = Some(2) /\ ~IsNone(run_status.error)
    /\ (Service /\ DidRaise(raised) /\ raised.kind \notin DomainErrors)
          => run_status.exit_code = Some(70) /\ ~IsNone(run_status.error)
    /\ (Service /\ run_status.exit_code = Some(70)) => raised.kind \notin DomainErrors
    /\ (Controller /\ DidRaise(raised))
          => run_status.exit_code = Some(IF IsOSVReproducerError(raised.kind) THEN 2 ELSE 70)

C5_Witness ==
    /\ Service /\ Done /\ ReachedRun
    /\ raised.kind = RunnerError
    /\ run_status.exit_code = Some(2)

(* C6: for the reproduce and verify verbs the process exit code is 0       *)
(* exactly when verification succeeded.                                    *)
C6_ExitZeroIffVerified ==
    (Controller /\ Done) => (ProcessExitCode(run_status) = 0 <=> run_status.verification_ok)

(* C7: every RunStatus of ReproducerService.__call__ is prefix-closed      *)
(* (build_ok implies context_ok, fuzzing_ok implies build_ok,              *)
(* verification_ok implies fuzzing_ok), and when the Run phase raises      *)
(* after a successful Build, context_ok and build_ok stay true while       *)
(* fuzzing_ok and verification_ok are false.                               *)
C7_PrefixClosed ==
    Service =>
       /\ run_status.build_ok => run_status.context_ok
       /\ run_status.fuzzing_ok => run_status.build_ok
       /\ run_status.verification_ok => run_status.fuzzing_ok
       /\ (Done /\ ReachedRun /\ DidRaise(raised))
             => /\ run_status.context_ok /\ run_status.build_ok
                /\ ~run_status.fuzzing_ok /\ ~run_status.verification_ok

C7_Witness ==
    /\ Service /\ Done /\ ReachedRun /\ DidRaise(raised)
    /\ run_status.context_ok /\ run_status.build_ok /\ ~run_status.fuzzing_ok

(* C8: the Verify step decides by mode: in FIX mode success iff no crash   *)
(* record was observed; in CRASH mode success iff a crash record was       *)
(* observed and verify_crash reports that it matches the reference.        *)
C8_VerifyByMode ==
    ~IsNone(verification) =>
       LET ok == Get(verification).success
       IN  /\ mode = FIX => (ok <=> IsNone(crash_info))
           /\ mode = CRASH =>
                (ok <=> /\ ~IsNone(crash_info)
                        /\ IF Service
                           THEN verify_crash(RefCrash, Get(crash_info)).success
                           ELSE handler_verify_crash(RefCrash, Get(crash_info)).success)
           /\ run_status.verification_ok = ok

C8_Witness ==
    /\ Done /\ mode = CRASH /\ Service
    /\ ~IsNone(verification) /\ ~IsNone(crash_info)
    /\ ~Get(verification).success

C8_WitnessFix ==
    /\ Done /\ mode = FIX /\ Controller
    /\ ~IsNone(verification) /\ ~IsNone(crash_info)
    /\ ~Get(verification).success

(* C9: a reproduction container exiting with a code other than 0 or 1      *)
(* gives a RunStatus (flags, error, exit code) different from the one the  *)
(* same run gives for exit code 1 and from the one it gives for exit code  *)
(* 0, in both modes.                                                       *)
RunsContainer(r) ==
    /\ files.fuzzer /\ IsNone(files.crash_info)
    /\ r.testcase /\ r.run /\ ~r.api_fault

C9_OtherExitCodeDistinct ==
    (Service /\ pc = "run") =>
       \A r \in RunInputs :
          (RunsContainer(r) /\ r.exit_code \notin {0, 1}) =>
             \A e \in {0, 1} :
                ServiceRunStatus(run_status, RunnerService(mode, RefCrash, W, r))
                # ServiceRunStatus(run_status,
                                   RunnerService(mode, RefCrash, W, [r EXCEPT !.exit_code = e]))

(* C10: in BuilderService.__call__, an existing build container that       *)
(* exited with code 0 (its last log lines showing no make error) is        *)
(* returned without run_container being called; one                        *)
(* that exited with code 1 is removed, run_container is called once, and   *)
(* the Build phase succeeds or fails by the new container's exit code.     *)
BuildStep == Service /\ pc = "build" /\ pc' # "build" /\ image /\ raised'.msg # "APIError"

ExitedWith(copt, code) ==
    ~IsNone(copt) /\ Get(copt).status = "exited" /\ Get(copt).exit_code = code

C10_BuildContainerReuse ==
    [][ /\ (BuildStep /\ ExitedWith(containers[FUZZER], 0)
                      /\ ~Get(containers[FUZZER]).make_error)
           => /\ pc' = "run"
              /\ dlog' = dlog
              /\ containers' = containers
        /\ (BuildStep /\ ExitedWith(containers[FUZZER], 1))
           => /\ Len(dlog') > Len(dlog)
              /\ dlog'[Len(dlog) + 1] = Op("remove", FUZZER)
              /\ (raised'.msg # "Failed to run container")
                    => /\ dlog' = dlog \o <<Op("remove", FUZZER), Op("run_container", FUZZER)>>
                       /\ pc' = "run" <=> Get(containers'[FUZZER]).exit_code = 0 ]_vars

(* C11: an existing build container that is not in state exited with exit  *)
(* code 0 (created, running, exited non-zero) is never returned as the     *)
(* build result: it is force-removed and a fresh container is run.         *)
C11_ReuseOnlyExitedZero ==
    [][ (BuildStep /\ ~IsNone(containers[FUZZER]) /\ ~ExitedWith(containers[FUZZER], 0))
           => /\ ~(pc' = "run" /\ containers'[FUZZER] = containers[FUZZER])
              /\ Len(dlog') > Len(dlog)
              /\ dlog'[Len(dlog) + 1] = Op("remove", FUZZER)
              /\ \/ raised'.msg = "Failed to run container"
                 \/ dlog' = dlog \o <<Op("remove", FUZZER), Op("run_container", FUZZER)>> ]_vars

(* C12: when a freshly run build container ends with a non-zero exit code  *)
(* or a make error in its last log lines, the builder raises BuilderError:  *)
(* the run is over with build_ok false and exit code 2, and the runner is  *)
(* never called.                                                           *)
FreshBuildFailed ==
    /\ Service /\ Ran(FUZZER)
    /\ Get(containers[FUZZER]).exit_code # 0 \/ Get(containers[FUZZER]).make_error

BuildImageCalls(log) == Cardinality({i \in 1..Len(log) : log[i] = Op("build_image", "base")})

C13_BaseImageGetOrBuild ==
    [][ (Service /\ pc = "build" /\ pc' # "build")
           => /\ image => (image' /\ BuildImageCalls(dlog') = 0)
              /\ ~image => /\ BuildImageCalls(dlog') <= 1
                           /\ image' => (BuildImageCalls(dlog') = 1 /\ ~intermediate')
                           /\ ~image' => (raised'.kind = BuilderError /\ pc' = "done") ]_vars

(* C14: container_ran returns true iff the container is present, its start *)
(* timestamp is set and not the zero timestamp, its status is neither      *)
(* empty nor "created", its combined logs are non-empty when logs are      *)
(* required, neither Error nor OOMKilled is set when no error is required, *)
(* and its exit code equals the expected one when one is given.            *)
RanRequirements(a, logs_present) ==
    /\ ~IsNone(a.container)
    /\ LET c == Get(a.container)
       IN  /\ c.started_at # <<>> /\ c.started_at # ZeroTime
           /\ c.status # "" /\ c.status # "created"
           /\ a.require_logs => logs_present
           /\ a.require_no_error => (c.error = "" /\ ~c.oom_killed)
           /\ ~IsNone(a.expected_exit_code) => c.exit_code = Get(a.expected_exit_code)

RanLogs == Get(ran.args.container).logs

(* as stated: the logs count when they hold any character at all           *)
C14_Original ==
    ~IsNone(ran.result)
       => (Get(ran.result) <=> RanRequirements(ran.args, RanLogs # <<>>))

(* the logs count when they hold a character that is not whitespace        *)
C14_ContainerRanIff ==
    ~IsNone(ran.result)
       => (Get(ran.result)
             <=> RanRequirements(ran.args, \E i \in 1..Len(RanLogs) : RanLogs[i] # "ws"))

C14_Witness ==
    /\ ran.result = Some(TRUE)
    /\ ran.args.require_logs /\ ran.args.require_no_error
    /\ ran.args.expected_exit_code = Some(1)

(* C15: when a snapshot is cached for (project, timestamp), get_snapshot   *)
(* returns exactly the cached value and makes no remote exists, list or    *)
(* download call and no cache write, whatever the sanitizer.               *)
FirstCall == gcs.results[1]
Called == Len(gcs.results) >= 1

C15_CacheHitNoRemote ==
    (Called /\ ~IsNone(FirstCall.found[gcs.args.timestamp]))
       => /\ ~DidRaise(FirstCall.raised)
          /\ FirstCall.value = FirstCall.found[gcs.args.timestamp]
          /\ FirstCall.made = <<>>
          /\ gcs.cache = FirstCall.found

(* The candidates the store lists for the call's sanitizer, those before   *)
(* the requested timestamp, and what the first call did.                   *)
Target == gcs.args.timestamp
Candidates == IF gcs.args.sanitizer = "address" THEN gcs.store.srcmaps ELSE {}
Below == {c \in Candidates : c < Target}
Latest(S) == CHOOSE m \in S : \A c \in S : c <= m
Made(op) == {FirstCall.made[i].ts : i \in {j \in 1..Len(FirstCall.made) : FirstCall.made[j].op = op}}
Miss == Called /\ IsNone(FirstCall.found[Target])
Answering == gcs.fault \notin {"exists", "list"}
CacheAfterFirst == IF Len(gcs.results) >= 2 THEN gcs.results[2].found ELSE gcs.cache

(* C16: when the exact key is absent, the blob fetched is the candidate    *)
(* with the greatest timestamp strictly before the target; archives,       *)
(* unparseable names and candidates at or after the target are never       *)
(* fetched.                                                                *)
C16_FallbackLatestBefore ==
    (Miss /\ Answering /\ Target \notin Candidates)
       => Made("download") = IF Below = {} THEN {} ELSE {Latest(Below)}

C16_Witness ==
    /\ Miss /\ Answering /\ Target \notin Candidates /\ gcs.store.clutter
    /\ Cardinality(Below) >= 2 /\ \E c \in Candidates : c > Target
    /\ Made("download") = {Latest(Below)}

(* C17: with no exact key and no candidate before the target, get_snapshot *)
(* returns None without raising, downloads nothing and writes no cache     *)
(* entry.                                                                  *)
C17_NotFoundIsNone ==
    (Miss /\ Answering /\ Target \notin Candidates /\ Below = {})
       => /\ ~DidRaise(FirstCall.raised)
          /\ IsNone(FirstCall.value)
          /\ Made("download") = {} /\ Made("cache_write") = {}
          /\ CacheAfterFirst = FirstCall.found

C17_Witness ==
    /\ Miss /\ Answering /\ Target \notin Candidates /\ Below = {}
    /\ gcs.store.clutter /\ Target > 1 /\ Candidates # {}
    /\ IsNone(FirstCall.value)

(* C18: on a cache miss with an expected revision, a downloaded snapshot   *)
(* whose entry for the project's own path carries another revision gets    *)
(* the expected revision there, in the returned and in the cached copy,    *)
(* every other entry unchanged; without an expected revision the snapshot  *)
(* is stored and returned as downloaded.                                   *)
Downloaded == SrcMapAt(Latest(Made("download")), gcs.store.shape)
Fetched == Miss /\ ~DidRaise(FirstCall.raised) /\ Made("download") # {}
Returned == Get(FirstCall.value)

C18_RevisionOverwrite ==
    Fetched
       => /\ IsNone(gcs.args.commit_sha)
             => (Returned = Downloaded /\ CacheAfterFirst[Target] = Some(Downloaded))
          /\ ( /\ ~IsNone(gcs.args.commit_sha)
               /\ ProjectPath \in DOMAIN Downloaded
               /\ ~IsNone(Downloaded[ProjectPath].rev)
               /\ Downloaded[ProjectPath].rev # gcs.args.commit_sha )
             => /\ DOMAIN Returned = DOMAIN Downloaded
                /\ Returned[ProjectPath] = [Downloaded[ProjectPath] EXCEPT !.rev = gcs.args.commit_sha]
                /\ \A x \in DOMAIN Downloaded \ {ProjectPath} : Returned[x] = Downloaded[x]
                /\ CacheAfterFirst[Target] = Some(Returned)

C18_Witness ==
    /\ Fetched /\ gcs.args.commit_sha = Some(2)
    /\ Downloaded[ProjectPath].rev = Some(1)
    /\ Returned[ProjectPath].rev = Some(2)
    /\ Target \notin Candidates

(* C19: when get_snapshot returns a snapshot it fetched from the store,    *)
(* the cache holds an equal snapshot under the requested timestamp, and    *)
(* the same call made again is a cache hit returning an equal snapshot.    *)
C19_FetchedIsCached ==
    Fetched
       => /\ CacheAfterFirst[Target] = FirstCall.value
          /\ Len(gcs.results) >= 2
                => /\ gcs.results[2].value = FirstCall.value
                   /\ gcs.results[2].made = <<>>

(* C20: verify_crash returns success = false whenever the reference stack *)
(* or the observed stack is empty, whatever the other fields are.          *)
EmptyStack == vc.ref.stack = <<>> \/ vc.obs.stack = <<>>

C20_EmptyStackFails ==
    EmptyStack
       => /\ ~IsNone(vc.service) => ~Get(vc.service).success
          /\ ~IsNone(vc.handler) => ~Get(vc.handler).success

(* C21: every VerificationResult that verify_crash returns has success     *)
(* true exactly when its error_messages list is empty.                     *)
C21_SuccessIffNoErrors ==
    /\ ~IsNone(vc.service) =>
          (Get(vc.service).success <=> Get(vc.service).error_messages = <<>>)
    /\ ~IsNone(vc.handler) =>
          (Get(vc.handler).success <=> Get(vc.handler).error_messages = <<>>)

(* C22: when the observed impact differs from the reference impact,        *)
(* verify_crash returns success = false and a non-empty error_messages,    *)
(* whatever the other fields and the stacks are.                           *)
C22_ImpactMismatchFails ==
    (vc.obs.impact # vc.ref.impact /\ ~IsNone(vc.service))
       => /\ ~Get(vc.service).success
          /\ Get(vc.service).error_messages # <<>>

(* C23: when observed frame 0 differs from reference frame 0 and k >= 1 is *)
(* the smallest observed index holding reference frame 0's name, the loop  *)
(* compares reference frame i with observed frame i + k, matched_frame is  *)
(* that name and, impact, operation and size matching, success is true;    *)
(* reference [f, g, h] against observed [sanitizer_intercept, f, g, h]     *)
(* gives success, matched_frame f and shift 1.                             *)
NonEmptyStacks == vc.ref.stack # <<>> /\ vc.obs.stack # <<>>

HasFrame(stack, name) == \E i \in 1..Len(stack) : stack[i] = name

LeastIndex(stack, name) ==
    CHOOSE k \in 0..(Len(stack) - 1) :
        /\ stack[k + 1] = name
        /\ \A j \in 0..(k - 1) : stack[j + 1] # name

Shifted ==
    /\ NonEmptyStacks
    /\ vc.obs.stack[1] # vc.ref.stack[1]
    /\ HasFrame(vc.obs.stack, vc.ref.stack[1])

FieldsMatch ==
    /\ vc.obs.impact = vc.ref.impact
    /\ vc.obs.operation = vc.ref.operation
    /\ vc.obs.size = vc.ref.size

ShiftExampleRef ==
    Crash("heap-buffer-overflow", "READ", Some(4), "0x602000000011",
          <<"f", "g", "h">>)

ShiftExampleObs ==
    Crash("heap-buffer-overflow", "READ", Some(4), "0x602000000099",
          <<"sanitizer_intercept", "f", "g", "h">>)

C23_FrameShift ==
    /\ (Shifted /\ ~IsNone(vc.service)) =>
          LET k == LeastIndex(vc.obs.stack, vc.ref.stack[1])
              n == Min(Len(vc.ref.stack), Len(vc.obs.stack) - k)
          IN  /\ k >= 1
              /\ compared_frames(vc.ref, vc.obs) = { <<i, i + k>> : i \in 0..(n - 1) }
              /\ Get(vc.service).matched_frame = Some(vc.ref.stack[1])
              /\ FieldsMatch =>
                    Get(vc.service) = VerificationResult(TRUE, Some(vc.ref.stack[1]), <<>>)
    /\ verify_crash(ShiftExampleRef, ShiftExampleObs)
          = VerificationResult(TRUE, Some("f"), <<>>)
    /\ compared_frames(ShiftExampleRef, ShiftExampleObs)
          = { <<0, 1>>, <<1, 2>>, <<2, 3>> }

C23_Witness ==
    /\ ~IsNone(vc.service)
    /\ vc.ref.stack = <<"f", "g">>
    /\ vc.obs.stack = <<"x", "f", "g">>
    /\ FieldsMatch
    /\ Get(vc.service).success
    /\ Get(vc.service).matched_frame = Some("f")

(* C24: with both stacks non-empty, success = true implies equal impacts,  *)
(* equal operations, a reference size that is unknown or equal to the      *)
(* observed size, and an observed frame with reference frame 0's name; if  *)
(* no observed frame has that name the result is success = false.          *)
C24_Soundness ==
    (NonEmptyStacks /\ ~IsNone(vc.service)) =>
       /\ Get(vc.service).success =>
             /\ vc.obs.impact = vc.ref.impact
             /\ vc.obs.operation = vc.ref.operation
             /\ (IsNone(vc.ref.size) \/ vc.obs.size = vc.ref.size)
             /\ HasFrame(vc.obs.stack, vc.ref.stack[1])
       /\ ~HasFrame(vc.obs.stack, vc.ref.stack[1]) => ~Get(vc.service).success

(* C25: with both stacks non-empty, equal impact, equal operation,         *)
(* matching size and frame 0 aligned directly or after a shift, the result *)
(* is success = true whatever the observed address and whatever the frame  *)
(* names at compared indices above 0; observed records that differ only in *)
(* address get the same VerificationResult.                                *)
Aligned == NonEmptyStacks /\ HasFrame(vc.obs.stack, vc.ref.stack[1])

C25_Tolerance ==
    ~IsNone(vc.service) =>
       /\ (Aligned /\ FieldsMatch) => Get(vc.service).success
       /\ \A a \in Addresses :
             verify_crash(vc.ref, [vc.obs EXCEPT !.address = a]) = Get(vc.service)

C25_Witness ==
    /\ ~IsNone(vc.service)
    /\ FieldsMatch
    /\ vc.obs.address # vc.ref.address
    /\ vc.ref.stack = <<"f", "g">>
    /\ vc.obs.stack = <<"f", "x", "g">>
    /\ Get(vc.service).success

(* C26: the size is compared only if the reference has a known size (no    *)
(* size message for a reference of unknown size), and a size mismatch is   *)
(* fatal when the reference size and the observed size are both known.     *)
SizeMessage(result) == \E i \in 1..Len(result.error_messages) :
                           result.error_messages[i] = MsgSize

SizeRule(result) ==
    /\ IsNone(vc.ref.size) => ~SizeMessage(result)
    /\ (~IsNone(vc.ref.size) /\ ~IsNone(vc.obs.size) /\ vc.obs.size # vc.ref.size)
          => ~result.success

C26_SizeCheck ==
    /\ ~IsNone(vc.service) => SizeRule(Get(vc.service))
    /\ ~IsNone(vc.handler) => SizeRule(Get(vc.handler))

(* C27: only the observed stack is shifted: a reference with an extra      *)
(* leading frame that does not occur in the observed stack (reference      *)
(* [x, f, g] against observed [f, g]) gets success = false.                *)
ExtraLeadingFrame ==
    /\ Len(vc.ref.stack) > 1
    /\ vc.obs.stack # <<>>
    /\ ~HasFrame(vc.obs.stack, vc.ref.stack[1])
    /\ \A i \in 1..Min(Len(vc.ref.stack) - 1, Len(vc.obs.stack)) :
          vc.obs.stack[i] = vc.ref.stack[i + 1]

ExtraFrameRef ==
    Crash("heap-buffer-overflow", "READ", Some(4), "0x602000000011",
          <<"x", "f", "g">>)

ExtraFrameObs ==
    Crash("heap-buffer-overflow", "READ", Some(4), "0x602000000011",
          <<"f", "g">>)

C27_OneSidedShift ==
    /\ (ExtraLeadingFrame /\ ~IsNone(vc.service))
          => /\ ~Get(vc.service).success
             /\ IsNone(Get(vc.service).matched_frame)
    /\ ~verify_crash(ExtraFrameRef, ExtraFrameObs).success

C27_Witness ==
    /\ ~IsNone(vc.service)
    /\ vc.ref.stack = <<"x", "f">>
    /\ vc.obs.stack = <<"f", "g">>
    /\ FieldsMatch
    /\ ~Get(vc.service).success

(* C28: parse_reproduce_logs_to_dict gives the same result whenever it is  *)
(* called on the same log lines, and gives the empty result for every log  *)
(* without a line that starts with "==" and contains "==ERROR".            *)
Parsed == plog.results # <<>>

Deterministic == \A i, j \in 1..Len(plog.results) : plog.results[i] = plog.results[j]

BannerText(line) == StartsWith(line, <<"==">>) /\ Contains(line, <<"==", "ERROR">>)

StrippedBannerText(line) ==
    StartsWith(Strip(line), <<"==">>) /\ Contains(line, <<"==", "ERROR">>)

NoLine(P(_)) == \A i \in 1..Len(plog.log_lines) : ~P(plog.log_lines[i])

SameIssueAndMode ==
    /\ names.context["first"].project = names.context["retry"].project
    /\ names.context["first"].id = names.context["retry"].id
    /\ names.context["first"].mode = names.context["retry"].mode

BothDerived == \A x \in Invocations : ~IsNone(names.derived[x])

C29_NamesStable ==
    (BothDerived /\ SameIssueAndMode)
       => /\ Get(names.derived["first"]).fuzzer = Get(names.derived["retry"]).fuzzer
          /\ Get(names.derived["first"]).runner = Get(names.derived["retry"]).runner

(* C30: RunnerService.__call__ returns a VerificationResult only if, after *)
(* the Run step, the runner container exists, has started, is not in the   *)
(* created state, produced non-empty logs, has no error or OOM flag and    *)
(* exited with the mode's expected code (0 in FIX, 1 in CRASH); in every   *)
(* other case it raises a RunnerError and produces no verification result. *)
RunnerCalled == Service /\ Done /\ ReachedRun

RunnerContainerRan ==
    /\ ~IsNone(containers[RUNNER])
    /\ LET c == Get(containers[RUNNER])
       IN  /\ c.started_at # <<>> /\ c.started_at[1] # "0001"
           /\ c.status \notin {"created", ""}
           /\ c.logs # <<>>
           /\ c.error = "" /\ ~c.oom_killed
           /\ c.exit_code = (IF mode = FIX THEN 0 ELSE 1)

C30_WitnessVerified ==
    /\ RunnerCalled
    /\ Ran(RUNNER)
    /\ RunnerContainerRan
    /\ ~IsNone(verification)

(* C32: every log with a sanitizer error banner line (a line starting with *)
(* "==" and containing "==ERROR") yields a crash record, not the empty     *)
(* result, whatever the banner's trailing segment is and however many      *)
(* colon-separated parts the line has.                                     *)
SomeLine(P(_)) == \E i \in 1..Len(plog.log_lines) : P(plog.log_lines[i])

C32_BannerYieldsRecord ==
    (Parsed /\ SomeLine(BannerText)) => plog.results[1] # EmptyDict

(* C31: the parser's stack holds exactly the frame lines (lines starting   *)
(* with "#") of the first trace after the error banner, in encounter       *)
(* order, DEDUP_TOKEN lines being allowed in between; no frame line after  *)
(* the first other line that follows a collected frame is included, and no *)
(* line at or after the first line beginning with "SUMMARY:".              *)
IsFrameLine(line) == StartsWith(Strip(line), <<"#">>)

IsDedupLine(line) == StartsWith(Strip(line), <<"DEDUP_TOKEN", ":">>)

LeastOr(S, default) == IF S = {} THEN default ELSE CHOOSE i \in S : \A j \in S : i <= j

(* 1-based indices of the lines of the first trace after the banner        *)
FirstTrace(log_lines) ==
    LET banner == find_error_start(log_lines).start_idx + 1
        stop == LeastOr({i \in banner..Len(log_lines) :
                            StartsWith(log_lines[i], <<"SUMMARY", ":">>)},
                        Len(log_lines) + 1)
        first == LeastOr({i \in banner..(stop - 1) : IsFrameLine(log_lines[i])}, stop)
        cut == LeastOr({i \in first..(stop - 1) :
                           ~IsFrameLine(log_lines[i]) /\ ~IsDedupLine(log_lines[i])},
                       stop)
    IN  {i \in first..(cut - 1) : IsFrameLine(log_lines[i])}

(* the members of a set of indices in increasing order                     *)
RECURSIVE Ascending(_)
Ascending(S) ==
    IF S = {} THEN <<>>
    ELSE LET i == CHOOSE i \in S : \A j \in S : i <= j
         IN  <<i>> \o Ascending(S \ {i})

HasFunction(line) == Contains(line, <<"ws", "in", "ws">>)

(* the function name of a frame line: what follows " in " up to the next   *)
(* whitespace                                                              *)
FunctionOf(line) ==
    LET rest == Strip(SubSeq(Strip(line), Find(Strip(line), <<"ws", "in", "ws">>) + 3,
                             Len(Strip(line))))
    IN  SubSeq(rest, 1, LeastOr({i \in 1..Len(rest) : rest[i] = "ws"}, Len(rest) + 1) - 1)

StackOf(result) == IF "stack" \in DOMAIN result THEN result["stack"].frames ELSE <<>>

BannerFound == Parsed /\ plog.results[1] # EmptyDict

StackIs(indices) ==
    LET order == Ascending(indices)
        stack == StackOf(plog.results[1])
    IN  /\ Len(stack) = Len(order)
        /\ \A k \in 1..Len(order) :
              /\ HasFunction(plog.log_lines[order[k]])
              /\ stack[k].function = FunctionOf(plog.log_lines[order[k]])

C31_Original == BannerFound => StackIs(FirstTrace(plog.log_lines))

(* As C31, the stack holding those of the frame lines that contain " in ". *)
C31_StackCollection ==
    BannerFound =>
        StackIs({i \in FirstTrace(plog.log_lines) : HasFunction(plog.log_lines[i])})

C31_Witness ==
    /\ BannerFound
    /\ plog.log_lines = <<BannerLine(DescOverflow), FrameLine("0", "f", "a.c"), DedupLine,
                          FrameLine("1", "g", "b.c"), InfoLine>>
    /\ Len(StackOf(plog.results[1])) = 2

C31_WitnessCut ==
    /\ BannerFound
    /\ plog.log_lines = <<BannerLine(DescOverflow), FrameLine("0", "f", "a.c"), InfoLine,
                          FrameLine("1", "g", "b.c"), SummaryLine>>
    /\ Len(StackOf(plog.results[1])) = 1

(* C33: when an earlier run saved a crash record for the same issue and    *)
(* mode, the Run step returns that stored record without running a new     *)
(* container, and the run reaches the verification result the earlier run  *)
(* reached with that record.                                               *)
StoredCrash == Service /\ pc = "run" /\ ~IsNone(files.crash_info)

C33_StoredCrashReused ==
    [][ (StoredCrash /\ pc' = "done")
           => /\ dlog' = dlog
              /\ ~DidRaise(raised')
                    => /\ crash_info' = files.crash_info
                       /\ verification' = Some(Verify(mode, RefCrash, files.crash_info, TRUE)) ]_vars

(* C34: a Build phase that succeeds by reusing the existing build          *)
(* container (no container is removed or started) leaves the fuzz target   *)
(* in the output directory of the current run, where the Run phase looks   *)
(* for it.                                                                 *)
BuildReused ==
    /\ pc = "build" /\ pc' = "run"
    /\ ~DidRaise(raised')
    /\ ~IsNone(containers[FUZZER])
    /\ dlog' = dlog

C34_ReusedBuildIsOwn == [][ BuildReused => files'.fuzzer ]_vars

(* C35: RunnerService.reproduce never reuses a reproduction container: a   *)
(* container found under the runner name is removed before run_container   *)
(* is called, a crash record or a verification comes only from a container *)
(* started by the call, and a missing fuzz target or test case raises      *)
(* RunnerError with no container removed or started.                       *)
NewOps == SubSeq(dlog', Len(dlog) + 1, Len(dlog'))

ReproduceStep == Service /\ pc = "run" /\ pc' = "done" /\ IsNone(files.crash_info)

C35_NeverReuses ==
    [][ ReproduceStep
           => /\ ~files.fuzzer
                    => /\ dlog' = dlog /\ containers' = containers
                       /\ raised'.kind = RunnerError
              /\ \A r \in RunInputs : ~r.testcase => reproduce(W, r) = RunnerFailed(W)
              /\ NewOps \in IF IsNone(containers[RUNNER])
                            THEN { <<>>, <<Op("run_container", RUNNER)>> }
                            ELSE { <<>>, <<Op("remove", RUNNER)>>,
                                   <<Op("remove", RUNNER), Op("run_container", RUNNER)>> }
              /\ (~DidRaise(raised') \/ ~IsNone(crash_info'))
                    => /\ NewOps # <<>>
                       /\ NewOps[Len(NewOps)] = Op("run_container", RUNNER)
                       /\ ~IsNone(containers'[RUNNER]) ]_vars

C35_Witness ==
    /\ Service /\ Done /\ ~IsNone(crash_info) /\ IsNone(files.crash_file)
    /\ Len(dlog) >= 2
    /\ dlog[Len(dlog) - 1] = Op("remove", RUNNER)
    /\ dlog[Len(dlog)] = Op("run_container", RUNNER)

(* C36: a snapshot returned by get_snapshot called with an expected        *)
(* revision carries that revision in its entry for the project's own       *)
(* source path, from the store or from the cache; a snapshot without such  *)
(* an entry is returned without an error.                                  *)
C36_RevisionCarried ==
    (~IsNone(gcs) /\ ~IsNone(gcs.args.commit_sha))
        => \A i \in 1..Len(gcs.results) :
              LET res == gcs.results[i]
              IN  /\ (~IsNone(res.value) /\ ProjectPath \in DOMAIN Get(res.value))
                        => Get(res.value)[ProjectPath].rev = gcs.args.commit_sha
                  /\ gcs.fault = "none" => ~DidRaise(res.raised)

(* C37: in FIX mode the snapshot search requests, in record order, the     *)
(* fixed events of the git ranges of the project's main repository only,   *)
(* each at the committer date of its commit minus 4 minutes with the       *)
(* commit as expected revision; it stops at the first fix for which a      *)
(* snapshot is returned, and when no fix yields a snapshot the context     *)
(* resolution fails, with the domain error unless a collaborator raised.   *)
RECURSIVE MainFixes(_)
MainFixes(ranges) ==
    IF ranges = <<>> THEN <<>>
    ELSE (IF ranges[1].repo = MainRepo THEN ranges[1].fixes ELSE <<>>) \o MainFixes(Tail(ranges))

Request(version) ==
    [sanitizer |-> "address",
     timestamp |-> IF version = "v1" THEN 1 ELSE 3,
     commit_sha |-> Some(IF version = "v1" THEN 1 ELSE 2)]

Searched == ~IsNone(fix) /\ ~IsNone(fix.result)

C37_FixSearchOrder ==
    Searched =>
        LET st == Get(fix.result)
            expected == MainFixes(fix.ranges)
            n == Len(st.requests)
        IN  /\ n <= Len(st.visited_commits) /\ Len(st.visited_commits) <= Len(expected)
            /\ \A k \in 1..n : st.requests[k] = Request(expected[k])
            /\ \A k \in 1..Len(st.visited_commits) : st.visited_commits[k] = expected[k]
            /\ st.found
                 => /\ n > 0 /\ ~IsNone(st.snapshot)
                    /\ st.timestamp = Some(st.requests[n].timestamp)
                    /\ st.g.cache[st.requests[n].timestamp] = st.snapshot
                    /\ Get(fix.error) = NoExc
            /\ \A k \in 1..(n - 1) : IsNone(st.g.cache[st.requests[k].timestamp])
                                        \/ st.requests[k].timestamp = st.requests[n].timestamp
            /\ ~st.found
                 => /\ DidRaise(Get(fix.error))
                    /\ ~DidRaise(st.raised)
                          => /\ n = Len(expected)
                             /\ Get(fix.error).kind = OSVReproducerError

C37_Witness ==
    /\ Searched
    /\ Get(fix.result).found
    /\ Len(Get(fix.result).requests) = 2
    /\ Len(fix.ranges) = 2 /\ fix.ranges[1].repo = OtherRepo /\ fix.ranges[1].fixes # <<>>

C37_WitnessNone ==
    /\ Searched
    /\ ~Get(fix.result).found /\ ~DidRaise(Get(fix.result).raised)
    /\ Len(Get(fix.result).requests) = 2

(* C38: the existence check gives no mutual exclusion.  The check step of  *)
(* an invocation changes nothing in the runtime and issues no call, it     *)
(* only keeps the answer; so another invocation may check or act before    *)
(* this one acts (C38_Witness: both saw no reproduction container and both *)
(* called run_container with its name; C38_WitnessRemoved: one removed the *)
(* container the other had just started).                                  *)
C38_CheckThenAct ==
    [][ \A p \in Invocation :
           (~IsNone(race) /\ race.pc[p] \in CheckSteps /\ race'.pc[p] # race.pc[p])
              => /\ race'.rt = race.rt
                 /\ race'.ops = race.ops
                 /\ race'.seen[p] = race.rt[NameOf(race.pc[p])]
                 /\ race'.pc[p] \notin {"done", "run_logs"}
                 /\ \A q \in Invocation \ {p} :
                       /\ race'.pc[q] = race.pc[q]
                       /\ race'.seen[q] = race.seen[q] ]_vars

RaceCalled(p, op, name) == \E i \in 1..Len(race.ops) : race.ops[i] = Call2(p, op, name)

C38_Witness ==
    /\ ~IsNone(race)
    /\ \A p \in Invocation :
          /\ IsNone(race.seen[p])
          /\ RaceCalled(p, "run_container", RUNNER)
    /\ \E p \in Invocation : race.outcome[p] = RunnerError

C38_WitnessRemoved ==
    /\ ~IsNone(race)
    /\ \E p, q \in Invocation :
          /\ p # q
          /\ ~IsNone(race.held[p]) /\ Get(race.held[p]) \in race.removed
          /\ race.seen[q] = race.held[p]
          /\ RaceCalled(q, "remove", RUNNER)
          /\ race.outcome[p] = RunnerError

(* C39: when two get_snapshot calls with equal arguments start from an     *)
(* empty cache and both return, they return equal snapshots, and the cache *)
(* entry of the timestamp is the one a single call would have written, in  *)
(* every interleaving of their check, download and write steps.            *)
BothReturned ==
    /\ ~IsNone(twin) /\ IsNone(twin.found)
    /\ \A p \in Getter : twin.pc[p] = "done" /\ ~DidRaise(twin.outcome[p].raised)

SingleCall ==
    get_snapshot([twin.g EXCEPT !.calls = <<>>,
                                !.cache = [t \in DOMAIN twin.g.cache |-> None]], twin.args)

C39_CacheWriteIdempotent ==
    BothReturned
        => /\ twin.outcome["a"].value = twin.outcome["b"].value
           /\ twin.outcome["a"].value = SingleCall.value
           /\ ~twin.torn
           /\ twin.g.cache = SingleCall.g.cache

C39_Witness ==
    /\ BothReturned
    /\ twin.wrote = Getter
    /\ ~IsNone(twin.args.commit_sha)

C39_WitnessHit ==
    /\ BothReturned
    /\ Cardinality(twin.wrote) = 1
    /\ \A p \in Getter : ~IsNone(twin.outcome[p].value)
====
